---- MODULE Spec2Model ----
(***************************************************************************)
(* Model of the image-specs header parsers: the BufferReader byte cursor,  *)
(* the eight per-format decoders, the format detector, the parseImage      *)
(* dispatcher, and the asynchronous functions around them:                 *)
(* getImageSpecsBatch, readStreamWithTimeout, fetchImageHeaders and        *)
(* getImageSpecs.                                                          *)
(*                                                                         *)
(* Buffers are sequences of bytes (0..255).  Positions are 0-based as in   *)
(* the source, so the byte at position p of buf is buf[p + 1].             *)
(* TLC integers are 32-bit signed: the buffers of the model keep every     *)
(* unsigned 32-bit field that reaches a result below 2^31 (see readUInt32; *)
(* an overflow is a TLC error, never a silently wrong value).              *)
(***************************************************************************)
EXTENDS Integers, Sequences, FiniteSets, TLC

VARIABLES
    \* parseImage (dispatcher) and direct decoder calls
    buffer,          \* the input buffer of the call
    pc,              \* position inside parseImage / the direct call
    detectedParser,  \* detectFormat(buffer), "null" when none
    idx,             \* index of the fallback loop over getAllParsers()
    calls,           \* decoders invoked so far, in order
    outs,            \* their outcomes, in order
    result,          \* what the call returned
    direct,          \* a decoder called directly on the buffer, and its outcome
    \* BufferReader
    rbuf,            \* BufferReader.buffer
    littleEndian,    \* BufferReader.littleEndian
    position,        \* BufferReader.position
    lastOp,          \* the last BufferReader operation and how it ended
    \* getImageSpecsBatch
    sources,         \* the sources array
    items,           \* the promise of each source's async callback
    completed,       \* indexes of the sources whose extraction is over, in that order
    batch,           \* the promise getImageSpecsBatch returns
    \* readStreamWithTimeout
    stream,          \* the Readable: data not emitted yet, ended, paused, destroyed
    listening,       \* onData, onEnd and onError are attached to the stream
    maxBytes,        \* the maxBytes argument
    chunks,          \* the chunks array
    totalLength,     \* the totalLength counter
    timeoutId,       \* "armed" while the timer is set, otherwise "undefined"
    promise,         \* the promise readStreamWithTimeout returns
    \* fetchImageHeaders
    requests,        \* the requests made so far: url and opts.redirectCount
    responses,       \* the responses they got: statusCode and headers.location
    fetched,         \* the promise the first call of fetchImageHeaders returns
    \* getImageSpecs
    source,          \* the kind of the source argument
    opts,            \* the options: maxBytes
    step,            \* position inside getImageSpecs
    bufferLength,    \* buffer.length after the first read
    parseResult,     \* "result", or "null" when parseImage found none
    attempt,         \* the index i of the retry loop
    fetches,         \* the maxBytes of every fetchImageHeaders call, in order
    specs            \* the promise getImageSpecs returns

vars ==
    <<buffer, pc, detectedParser, idx, calls, outs, result, direct,
      rbuf, littleEndian, position, lastOp,
      sources, items, completed, batch,
      stream, listening, maxBytes, chunks, totalLength, timeoutId, promise,
      requests, responses, fetched,
      source, opts, step, bufferLength, parseResult, attempt, fetches, specs>>

dispatchVars ==
    <<buffer, pc, detectedParser, idx, calls, outs, result, direct>>

readerVars ==
    <<rbuf, littleEndian, position, lastOp>>

batchVars ==
    <<sources, items, completed, batch>>

streamVars ==
    <<stream, listening, maxBytes, chunks, totalLength, timeoutId, promise>>

fetchVars ==
    <<requests, responses, fetched>>

specsVars ==
    <<source, opts, step, bufferLength, parseResult, attempt, fetches, specs>>

asyncVars == <<batchVars, streamVars, fetchVars, specsVars>>

-----------------------------------------------------------------------------
(* Bounds of the model *)

\* longest buffer handed to the BufferReader state machine
MaxLen == 4
\* largest width and height written into the image files handed to the decoders
MaxDim == 2
\* largest length / byte count / seek overshoot passed to a BufferReader operation
MaxArg == 5
\* most APP0 and APP1 segments before the SOF segment of a JPEG file
MaxSegs == 3
\* largest component count an SOF segment declares
MaxComponents == 4
\* most entries of an ICO directory
MaxEntries == 2
\* most sources handed to getImageSpecsBatch
MaxSources == 3
\* most bytes a stream delivers
MaxStreamBytes == 5
\* largest maxBytes passed to readStreamWithTimeout
MaxLimit == 3
\* chunks of a crafted WebP file
MaxChunks == 3
\* top-level boxes of a crafted AVIF file
MaxBoxes == 3

-----------------------------------------------------------------------------
(* Promises and streams that no call has made *)

NoPromise == [state |-> "none", value |-> <<>>, settled |-> 0]

NoStream == [left |-> <<>>, ended |-> FALSE, paused |-> FALSE, destroyed |-> FALSE]

\* a promise that is not settled yet
PendingPromise == [state |-> "pending", value |-> <<>>, settled |-> 0]

\* resolve(value) and reject(reason): the first call settles the promise,
\* a later call changes nothing but is counted
Resolve(p, value) ==
    IF p.state = "pending"
    THEN [state |-> "fulfilled", value |-> value, settled |-> 1]
    ELSE [p EXCEPT !.settled = @ + 1]

Reject(p, reason) ==
    IF p.state = "pending"
    THEN [state |-> "rejected", value |-> reason, settled |-> 1]
    ELSE [p EXCEPT !.settled = @ + 1]

-----------------------------------------------------------------------------
(* Generic helpers *)

\* Let([x \in {e} |-> body]) is body with x standing for the value of e
Let(f) == f[CHOOSE x \in DOMAIN f : TRUE]

Min(a, b) == IF a < b THEN a ELSE b

Max(a, b) == IF a > b THEN a ELSE b

\* JavaScript `undefined` for an optional numeric field
Undef == -1

\* buffer[i] ?? 0
At(buf, i) ==
    IF i >= 0 /\ i < Len(buf) THEN buf[i + 1] ELSE 0

\* buffer.subarray(from, to)
Slice(buf, from, to) ==
    Let([f \in {Min(Max(from, 0), Len(buf))} |->
    Let([t \in {Min(Max(to, f), Len(buf))} |->
        SubSeq(buf, f + 1, t)])])

-----------------------------------------------------------------------------
(* BufferReader: every operation maps (buffer, position) to                *)
(* [ok, pos, val]; ok = FALSE is the thrown Error, pos the position after. *)

Thrown(pos) == [ok |-> FALSE, pos |-> pos, val |-> Undef]

Done(pos, val) == [ok |-> TRUE, pos |-> pos, val |-> val]

readUInt8(buf, pos) ==
    IF pos >= Len(buf)
    THEN Thrown(pos)
    ELSE Done(pos + 1, At(buf, pos))

\* a 16-bit read that moves the cursor by one byte only
readUInt16AdvancesOne(buf, pos, le) ==
    IF pos + 2 > Len(buf)
    THEN Thrown(pos)
    ELSE Done(pos + 1, 0)

readUInt16(buf, pos, le) ==
    IF pos + 2 > Len(buf)
    THEN Thrown(pos)
    ELSE Done(pos + 2,
              IF le THEN At(buf, pos) + 256 * At(buf, pos + 1)
                    ELSE 256 * At(buf, pos) + At(buf, pos + 1))

\* A field whose highest bit is set (2^31 or more) is held as 2^31 - 2^16:
\* beyond every length and offset of a buffer, so each bounds check and seek
\* computed from it decides as in the source.
readUInt32(buf, pos, le) ==
    IF pos + 4 > Len(buf)
    THEN Thrown(pos)
    ELSE Done(pos + 4,
              IF At(buf, IF le THEN pos + 3 ELSE pos) >= 128 THEN 2147418112
              ELSE IF le THEN At(buf, pos) + 256 * At(buf, pos + 1)
                         + 65536 * At(buf, pos + 2) + 16777216 * At(buf, pos + 3)
                    ELSE 16777216 * At(buf, pos) + 65536 * At(buf, pos + 1)
                         + 256 * At(buf, pos + 2) + At(buf, pos + 3))

\* two's complement: the most significant byte carries the sign
SignedByte(b) == IF b >= 128 THEN b - 256 ELSE b

readInt32(buf, pos, le) ==
    IF pos + 4 > Len(buf)
    THEN Thrown(pos)
    ELSE Done(pos + 4,
              IF le THEN At(buf, pos) + 256 * At(buf, pos + 1)
                         + 65536 * At(buf, pos + 2)
                         + 16777216 * SignedByte(At(buf, pos + 3))
                    ELSE 16777216 * SignedByte(At(buf, pos)) + 65536 * At(buf, pos + 1)
                         + 256 * At(buf, pos + 2) + At(buf, pos + 3))

\* buffer.toString(encoding): the code points of the decoded text.
\* latin1 maps a byte to its code point; ascii unsets the highest bit of each
\* byte first; utf8 agrees with latin1 below 128, and a byte >= 128 never
\* decodes to an ASCII character (the model maps it to U+FFFD).
Decode(bytes, encoding) ==
    SubSeq([i \in 1..Len(bytes) |->
               IF encoding = "latin1" THEN bytes[i]
               ELSE IF encoding = "ascii" THEN bytes[i] % 128
               ELSE IF bytes[i] < 128 THEN bytes[i] ELSE 65533],
           1, Len(bytes))

readString(buf, pos, length, encoding) ==
    IF pos + length > Len(buf)
    THEN Thrown(pos)
    ELSE Done(pos + length, Decode(Slice(buf, pos, pos + length), encoding))

readBytes(buf, pos, length) ==
    IF pos + length > Len(buf)
    THEN Thrown(pos)
    ELSE Done(pos + length, Slice(buf, pos, pos + length))

RECURSIVE ScanToNull(_, _, _)
\* while (end < max && buffer[end] !== 0) end++
ScanToNull(buf, end, max) ==
    IF end < max /\ At(buf, end) # 0
    THEN ScanToNull(buf, end + 1, max)
    ELSE end

\* maxLength = 0 stands for an absent (or zero, equally falsy) maxLength
readNullTerminatedString(buf, pos, maxLength, encoding) ==
    Let([max \in {IF maxLength # 0 THEN Min(pos + maxLength, Len(buf)) ELSE Len(buf)} |->
    Let([end \in {ScanToNull(buf, pos, max)} |->
        Done(IF end < max THEN end + 1 ELSE end, Decode(Slice(buf, pos, end), encoding))])])

skip(buf, pos, bytes) ==
    Done(Min(pos + bytes, Len(buf)), Undef)

\* a seek without the upper bound check
seekUnchecked(buf, pos, target) ==
    IF target < 0 THEN Thrown(pos) ELSE Done(target, Undef)

seek(buf, pos, target) ==
    IF target < 0 \/ target > Len(buf)
    THEN Thrown(pos)
    ELSE Done(target, Undef)

remaining(buf, pos) == Len(buf) - pos

canRead(buf, pos, bytes) == pos + bytes <= Len(buf)

peekUInt8(buf, pos) ==
    IF pos >= Len(buf)
    THEN Thrown(pos)
    ELSE Done(pos, At(buf, pos))

-----------------------------------------------------------------------------
(* Text helpers: a text is the sequence of its code points *)

\* text.substring(i).startsWith(pat), i 0-based
MatchesAt(text, i, pat) ==
    /\ i >= 0
    /\ i + Len(pat) <= Len(text)
    /\ \A k \in 1..Len(pat) : text[i + k] = pat[k]

\* text.indexOf(pat, from): the first 0-based index >= from, or -1
IndexOf(text, pat, from) ==
    Let([hits \in {{i \in from..(Len(text) - Len(pat)) : MatchesAt(text, i, pat)}} |->
        IF hits = {} THEN 0 - 1 ELSE CHOOSE i \in hits : \A j \in hits : i <= j])

\* text.includes(pat)
Includes(text, pat) == IndexOf(text, pat, 0) >= 0

\* text.toLowerCase(), on the ASCII letters the patterns are made of
ToLowerCase(text) ==
    [i \in 1..Len(text) |->
        IF text[i] >= 65 /\ text[i] <= 90 THEN text[i] + 32 ELSE text[i]]

\* the characters String.prototype.trim() removes (ASCII range)
IsSpace(c) == c \in {9, 10, 11, 12, 13, 32}

RECURSIVE TrimStart(_)
TrimStart(text) ==
    IF Len(text) > 0 /\ IsSpace(text[1]) THEN TrimStart(Tail(text)) ELSE text

RECURSIVE TrimEnd(_)
TrimEnd(text) ==
    IF Len(text) > 0 /\ IsSpace(text[Len(text)])
    THEN TrimEnd(SubSeq(text, 1, Len(text) - 1))
    ELSE text

\* text.trim()
Trim(text) == TrimEnd(TrimStart(text))

-----------------------------------------------------------------------------
(* ParseResult: what a decoder returns.  kind "none" is null, kind "threw" *)
(* an Error that left the decoder.  An absent optional field holds Undef   *)
(* (numbers), "undefined" (colour space) or NoText (profile name).         *)

NoMatch == [kind |-> "none"]

Raised == [kind |-> "threw"]

\* a string literal of the source used as a profile name
Lit(s) == [lit |-> s, text |-> <<>>]

\* a profile name read from the file
FromFile(t) == [lit |-> "", text |-> t]

NoText == Lit("undefined")

\* 'px'
Px == <<112, 120>>

ParseResult(w, h, type, mime) ==
    [kind |-> "result", width |-> w, height |-> h, type |-> type, mime |-> mime,
     wUnits |-> Px, hUnits |-> Px, wResolution |-> Undef, hResolution |-> Undef,
     colorSpace |-> "undefined", iccProfile |-> NoText, gamma |-> Undef,
     bitDepth |-> Undef, channels |-> Undef]

\* Math.round(x * num / den) for x >= 0 (Math.round rounds half up)
RoundRatio(x, num, den) ==
    (x \div den) * num + (2 * (x % den) * num + den) \div (2 * den)

-----------------------------------------------------------------------------
(* Colour-space heuristics *)

getColorSpaceFromString(str) ==
    Let([lowerStr \in {ToLowerCase(str)} |->
        IF Includes(lowerStr, <<115, 114, 103, 98>>)                  \* 'srgb'
           \/ Includes(lowerStr, <<115, 95, 114, 103, 98>>)           \* 's_rgb'
        THEN "sRGB"
        ELSE IF Includes(lowerStr, <<97, 100, 111, 98, 101>>)         \* 'adobe'
                /\ Includes(lowerStr, <<114, 103, 98>>)               \* 'rgb'
        THEN "Adobe RGB"
        ELSE IF Includes(lowerStr, <<100, 105, 115, 112, 108, 97, 121>>)  \* 'display'
                /\ Includes(lowerStr, <<112, 51>>)                    \* 'p3'
        THEN "Display P3"
        ELSE IF Includes(lowerStr, <<112, 114, 111, 112, 104, 111, 116, 111>>)  \* 'prophoto'
        THEN "ProPhoto RGB"
        ELSE IF Includes(lowerStr, <<114, 101, 99, 50, 48, 50, 48>>)          \* 'rec2020'
                \/ Includes(lowerStr, <<114, 101, 99, 46, 50, 48, 50, 48>>)   \* 'rec.2020'
                \/ Includes(lowerStr, <<114, 101, 99, 95, 50, 48, 50, 48>>)   \* 'rec_2020'
        THEN "Rec. 2020"
        ELSE "undefined"])

getColorSpaceFromTag(tag) ==
    Let([trimmedTag \in {Trim(tag)} |->
        IF trimmedTag = <<82, 71, 66>> THEN "RGB"                     \* 'RGB'
        ELSE IF trimmedTag = <<71, 82, 65, 89>> THEN "Grayscale"      \* 'GRAY'
        ELSE IF trimmedTag = <<67, 77, 89, 75>> THEN "CMYK"           \* 'CMYK'
        ELSE IF trimmedTag = <<76, 97, 98>> THEN "Lab"                \* 'Lab'
        ELSE "undefined"])

-----------------------------------------------------------------------------
(* JPEG *)

MARKERS ==
    [SOI |-> 65496, EOI |-> 65497, APP0 |-> 65504, APP1 |-> 65505,
     APP2 |-> 65506, APP14 |-> 65518]

\* SOF0-3, SOF5-7, SOF9-11, SOF13-15 (0xffc0..0xffcf without c4, c8, cc)
isSOFMarker(marker) ==
    marker \in (65472..65487) \ {65476, 65480, 65484}

NoResolution == [threw |-> FALSE, w |-> Undef, h |-> Undef]

\* the reader stands at the start of the APP0 payload
parseJFIF(buf, pos) ==
    IF ~canRead(buf, pos, 14)
       \/ readString(buf, pos, 5, "utf8").val # <<74, 70, 73, 70, 0>>    \* 'JFIF\0'
    THEN NoResolution
    ELSE Let([version \in {skip(buf, pos + 5, 2)} |->
         Let([densityUnits \in {readUInt8(buf, version.pos)} |->
         Let([xDensity \in {readUInt16(buf, densityUnits.pos, FALSE)} |->
         Let([yDensity \in {readUInt16(buf, xDensity.pos, FALSE)} |->
             IF ~(densityUnits.ok /\ xDensity.ok /\ yDensity.ok)
             THEN [NoResolution EXCEPT !.threw = TRUE]
             ELSE IF densityUnits.val = 1
             THEN [threw |-> FALSE, w |-> xDensity.val, h |-> yDensity.val]
             ELSE IF densityUnits.val = 2
             THEN [threw |-> FALSE, w |-> RoundRatio(xDensity.val, 254, 100),
                   h |-> RoundRatio(yDensity.val, 254, 100)]
             ELSE NoResolution])])])])

\* an 8-byte rational at offset, when it lies inside the buffer and its
\* denominator is > 0: [n, d]; otherwise the previous value
ExifRational(buf, le, offset, previous) ==
    IF offset + 8 <= Len(buf)
    THEN Let([numerator \in {readUInt32(buf, seek(buf, 0, offset).pos, le)} |->
         Let([denominator \in {readUInt32(buf, numerator.pos, le)} |->
             IF denominator.val > 0
             THEN [n |-> numerator.val, d |-> denominator.val]
             ELSE previous])])
    ELSE previous

NoRational == [n |-> 0, d |-> 0]

RECURSIVE ExifEntries(_, _, _, _, _, _)
\* the IFD loop: i entries done, the tiffReader at pos
ExifEntries(buf, le, tiffStart, numEntries, i, st) ==
    IF i >= numEntries \/ ~canRead(buf, st.pos, 12)
    THEN st
    ELSE Let([tag \in {readUInt16(buf, st.pos, le)} |->
         Let([type \in {readUInt16(buf, tag.pos, le)} |->
         Let([count \in {readUInt32(buf, type.pos, le)} |->
         Let([valueOffset \in {readUInt32(buf, count.pos, le)} |->
         Let([isRational \in {type.val = 5 /\ count.val = 1} |->
             ExifEntries(buf, le, tiffStart, numEntries, i + 1,
                 [pos |-> valueOffset.pos,
                  x |-> IF tag.val = 282 /\ isRational         \* 0x011a XResolution
                        THEN ExifRational(buf, le, valueOffset.val + tiffStart, st.x)
                        ELSE st.x,
                  y |-> IF tag.val = 283 /\ isRational         \* 0x011b YResolution
                        THEN ExifRational(buf, le, valueOffset.val + tiffStart, st.y)
                        ELSE st.y,
                  unit |-> IF tag.val = 296 /\ type.val = 3 /\ count.val = 1   \* 0x0128
                           THEN IF le THEN valueOffset.val % 65536
                                      ELSE valueOffset.val \div 65536
                           ELSE st.unit])])])])])])

\* the reader stands at the start of the APP1 payload
parseEXIF(buf, pos) ==
    IF ~canRead(buf, pos, 6)
       \/ readString(buf, pos, 6, "utf8").val # <<69, 120, 105, 102, 0, 0>>   \* 'Exif\0\0'
    THEN NoResolution
    ELSE Let([tiffStart \in {pos + 6} |->
             IF ~canRead(buf, tiffStart, 8)
             THEN NoResolution
             ELSE Let([le \in {readString(buf, tiffStart, 2, "utf8").val = <<73, 73>>} |->   \* 'II'
                  Let([magic \in {skip(buf, skip(buf, seek(buf, 0, tiffStart).pos, 2).pos, 2)} |->
                  Let([ifd \in {readUInt32(buf, magic.pos, le)} |->
                  Let([ifdOffset \in {ifd.val + tiffStart} |->
                      IF ~ifd.ok THEN [NoResolution EXCEPT !.threw = TRUE]
                      ELSE IF ifdOffset + 2 > Len(buf) THEN NoResolution
                      ELSE Let([numEntries \in {readUInt16(buf, seek(buf, 0, ifdOffset).pos, le)} |->
                           Let([dir \in {
                                      ExifEntries(buf, le, tiffStart, numEntries.val, 0,
                                          [pos |-> numEntries.pos, x |-> NoRational,
                                           y |-> NoRational, unit |-> 2])} |->
                               IF dir.x.n > 0 /\ dir.y.n > 0
                               THEN IF dir.unit = 3
                                    THEN [threw |-> FALSE,
                                          w |-> RoundRatio(dir.x.n, 254, 100 * dir.x.d),
                                          h |-> RoundRatio(dir.y.n, 254, 100 * dir.y.d)]
                                    ELSE IF dir.unit = 2
                                    THEN [threw |-> FALSE,
                                          w |-> RoundRatio(dir.x.n, 1, dir.x.d),
                                          h |-> RoundRatio(dir.y.n, 1, dir.y.d)]
                                    ELSE NoResolution
                               ELSE NoResolution])])])])])])])

\* the accumulators of parseJPEG after one segment handler; threw: an Error
\* left the handler
Handled(threw, st) == [threw |-> threw, st |-> st]

\* an APP0 handler that takes the JFIF resolution whatever is known so far
handleAPP0Always(buf, st, segmentStart) ==
    Let([resolution \in {parseJFIF(buf, segmentStart)} |->
        Handled(resolution.threw,
                [st EXCEPT !.wResolution = resolution.w, !.hResolution = resolution.h])])

\* APP0: the JFIF resolution is used only while no resolution is known
handleAPP0(buf, st, segmentStart) ==
    Let([resolution \in {parseJFIF(buf, segmentStart)} |->
        Handled(resolution.threw,
                IF st.wResolution = Undef
                THEN [st EXCEPT !.wResolution = resolution.w, !.hResolution = resolution.h]
                ELSE st)])

\* APP1: an EXIF resolution replaces the one known so far
handleAPP1(buf, st, segmentStart) ==
    Let([resolution \in {parseEXIF(buf, segmentStart)} |->
        Handled(resolution.threw,
                IF resolution.w # Undef
                THEN [st EXCEPT !.wResolution = resolution.w, !.hResolution = resolution.h]
                ELSE st)])

\* APP2 with segmentLength > 14
handleAPP2(buf, st, segmentLength, segmentStart) ==
    Let([iccMarker \in {readString(buf, segmentStart, 12, "latin1")} |->
        IF ~iccMarker.ok THEN Handled(TRUE, st)
        ELSE IF iccMarker.val # <<73, 67, 67, 95, 80, 82, 79, 70, 73, 76, 69, 0>>  \* 'ICC_PROFILE\0'
        THEN Handled(~seek(buf, iccMarker.pos, segmentStart).ok, st)
        ELSE Let([st1 \in {
                        [st EXCEPT !.iccProfile =
                            IF st.iccProfile = "undefined" THEN "Embedded" ELSE st.iccProfile]} |->
             Let([chunkNumbers \in {skip(buf, iccMarker.pos, 2)} |->
             Let([profileDataLength \in {segmentLength - 18} |->
                 IF profileDataLength > 0 /\ canRead(buf, chunkNumbers.pos, profileDataLength)
                 THEN Let([profileData \in {readBytes(buf, chunkNumbers.pos, profileDataLength).val} |->
                      Let([detectedColorSpace \in {getColorSpaceFromString(Decode(profileData, "latin1"))} |->
                      Let([st2 \in {
                                 IF detectedColorSpace # "undefined"
                                 THEN [st1 EXCEPT !.colorSpace = detectedColorSpace,
                                                  !.iccProfile = detectedColorSpace]
                                 ELSE st1} |->
                      Let([tagColorSpace \in {getColorSpaceFromTag(Decode(Slice(profileData, 16, 20), "ascii"))} |->
                          Handled(FALSE,
                                  IF st2.colorSpace = "undefined" /\ Len(profileData) >= 20
                                     /\ tagColorSpace # "undefined"
                                  THEN [st2 EXCEPT !.colorSpace = tagColorSpace]
                                  ELSE st2)])])])])
                 ELSE Handled(FALSE, st1)])])])])

\* an APP14 handler that applies the transform whatever colour space is set
handleAPP14Unguarded(buf, st, segmentStart) ==
    Let([adobeMarker \in {readString(buf, segmentStart, 5, "latin1")} |->
        IF ~adobeMarker.ok THEN Handled(TRUE, st)
        ELSE IF adobeMarker.val # <<65, 100, 111, 98, 101>>          \* 'Adobe'
        THEN Handled(~seek(buf, adobeMarker.pos, segmentStart).ok, st)
        ELSE Let([transform \in {readUInt8(buf, skip(buf, adobeMarker.pos, 6).pos)} |->
                 IF ~transform.ok THEN Handled(TRUE, st)
                 ELSE IF transform.val = 0
                 THEN Handled(FALSE, IF st.iccProfile = "undefined"
                                     THEN [st EXCEPT !.colorSpace = "Adobe RGB"] ELSE st)
                 ELSE IF transform.val = 1
                 THEN Handled(FALSE, IF st.iccProfile = "undefined"
                                     THEN [st EXCEPT !.colorSpace = "YCbCr"] ELSE st)
                 ELSE IF transform.val = 2
                 THEN Handled(FALSE, [st EXCEPT !.colorSpace = "YCCK"])
                 ELSE Handled(FALSE, st)])])

\* APP14 with segmentLength >= 12
handleAPP14(buf, st, segmentStart) ==
    Let([adobeMarker \in {readString(buf, segmentStart, 5, "latin1")} |->
        IF ~adobeMarker.ok THEN Handled(TRUE, st)
        ELSE IF adobeMarker.val # <<65, 100, 111, 98, 101>>          \* 'Adobe'
        THEN Handled(~seek(buf, adobeMarker.pos, segmentStart).ok, st)
        ELSE Let([transform \in {readUInt8(buf, skip(buf, adobeMarker.pos, 6).pos)} |->
                 IF ~transform.ok THEN Handled(TRUE, st)
                 ELSE IF st.colorSpace \in {"undefined", "RGB"}
                 THEN IF transform.val = 0
                      THEN Handled(FALSE, IF st.iccProfile = "undefined"
                                          THEN [st EXCEPT !.colorSpace = "Adobe RGB"] ELSE st)
                      ELSE IF transform.val = 1
                      THEN Handled(FALSE, IF st.iccProfile = "undefined"
                                          THEN [st EXCEPT !.colorSpace = "YCbCr"] ELSE st)
                      ELSE IF transform.val = 2
                      THEN Handled(FALSE, [st EXCEPT !.colorSpace = "YCCK"])
                      ELSE Handled(FALSE, st)
                 ELSE Handled(FALSE, st)])])

\* a result whose colour space is inferred from the component count first
jpegResultByComponents(st, precision, height, width, components) ==
    [ParseResult(width, height, "jpg", "image/jpeg") EXCEPT
        !.bitDepth = IF precision # 0 THEN precision ELSE Undef,
        !.channels = IF components # 0 THEN components ELSE Undef,
        !.colorSpace =
            IF components = 1 THEN "Grayscale"
            ELSE IF components = 3 THEN "RGB"
            ELSE IF components = 4 THEN "CMYK"
            ELSE st.colorSpace,
        !.wResolution = st.wResolution,
        !.hResolution = st.hResolution,
        !.iccProfile = Lit(st.iccProfile)]

\* the ParseResult built at a SOF segment with width > 0 and height > 0
jpegResult(st, precision, height, width, components) ==
    [ParseResult(width, height, "jpg", "image/jpeg") EXCEPT
        !.bitDepth = IF precision # 0 THEN precision ELSE Undef,
        !.channels = IF components # 0 THEN components ELSE Undef,
        !.colorSpace =
            IF st.colorSpace # "undefined" THEN st.colorSpace
            ELSE IF components = 1 THEN "Grayscale"
            ELSE IF components = 3 THEN "RGB"
            ELSE IF components = 4 THEN "CMYK"
            ELSE "undefined",
        !.wResolution = st.wResolution,
        !.hResolution = st.hResolution,
        !.iccProfile = Lit(st.iccProfile)]

\* a length check that lets every declared length pass
anySegmentLength(buf, segmentStart, segmentLength) == TRUE

\* the declared length counts its own 2 bytes and the payload lies inside
\* the buffer
validSegmentLength(buf, segmentStart, segmentLength) ==
    segmentLength >= 2 /\ canRead(buf, segmentStart, segmentLength - 2)

\* an SOF test that lets a frame of width 1 pass
widerThanOne(width, height) == width > 1 /\ height > 0

\* `if (width > 0 && height > 0)`: the SOF segment at which parseJPEG returns
positiveDimensions(width, height) == width > 0 /\ height > 0

RECURSIVE jpegScan(_, _)
\* the while loop of parseJPEG, the reader at st.pos
jpegScan(buf, st) ==
    IF ~(remaining(buf, st.pos) > 1) THEN NoMatch
    ELSE IF readUInt8(buf, st.pos).val # 255
    THEN jpegScan(buf, [st EXCEPT !.pos = readUInt8(buf, st.pos).pos])
    ELSE
    Let([prefix \in {readUInt8(buf, st.pos)} |->
    Let([markerByte \in {readUInt8(buf, prefix.pos)} |->
    Let([marker \in {65280 + markerByte.val} |->
    Let([length \in {readUInt16(buf, markerByte.pos, FALSE)} |->
    Let([segmentLength \in {length.val} |->
    Let([segmentStart \in {length.pos} |->
    Let([handled \in {
            IF marker = MARKERS.APP0 THEN handleAPP0(buf, st, segmentStart)
            ELSE IF marker = MARKERS.APP1 THEN handleAPP1(buf, st, segmentStart)
            ELSE IF marker = MARKERS.APP2 /\ segmentLength > 14
            THEN handleAPP2(buf, st, segmentLength, segmentStart)
            ELSE IF marker = MARKERS.APP14 /\ segmentLength >= 12
            THEN handleAPP14(buf, st, segmentStart)
            ELSE Handled(FALSE, st)} |->
    Let([precision \in {readUInt8(buf, segmentStart)} |->
    Let([height \in {readUInt16(buf, precision.pos, FALSE)} |->
    Let([width \in {readUInt16(buf, height.pos, FALSE)} |->
    Let([components \in {readUInt8(buf, width.pos)} |->
    Let([next \in {seek(buf, segmentStart, segmentStart + segmentLength - 2)} |->
        IF ~prefix.ok THEN Raised
        ELSE IF ~markerByte.ok THEN Raised
        ELSE IF marker = MARKERS.SOI \/ marker = MARKERS.EOI
        THEN jpegScan(buf, [st EXCEPT !.pos = markerByte.pos])
        ELSE IF ~canRead(buf, markerByte.pos, 2) THEN NoMatch
        ELSE IF ~validSegmentLength(buf, segmentStart, segmentLength) THEN NoMatch
        ELSE IF handled.threw THEN Raised
        ELSE IF isSOFMarker(marker) /\ ~canRead(buf, segmentStart, 6) THEN NoMatch
        ELSE IF isSOFMarker(marker) /\ positiveDimensions(width.val, height.val)
        THEN jpegResult(handled.st, precision.val, height.val, width.val, components.val)
        ELSE IF ~next.ok THEN Raised
        ELSE jpegScan(buf, [handled.st EXCEPT !.pos = next.pos])])])])])])])])])])])])])

parseJPEG(buf) ==
    IF Len(buf) < 4 THEN NoMatch
    ELSE Let([soi \in {readUInt16(buf, 0, FALSE)} |->
             IF soi.val # MARKERS.SOI THEN NoMatch
             ELSE jpegScan(buf, [pos |-> soi.pos, wResolution |-> Undef,
                                  hResolution |-> Undef, colorSpace |-> "undefined",
                                  iccProfile |-> "undefined"])])

-----------------------------------------------------------------------------
(* GIF *)

parseGIF(buf) ==
    IF Len(buf) < 10 THEN NoMatch
    ELSE Let([signature \in {readString(buf, 0, 6, "utf8")} |->
         Let([width \in {readUInt16(buf, signature.pos, TRUE)} |->
         Let([height \in {readUInt16(buf, width.pos, TRUE)} |->
             IF ~signature.ok THEN Raised
             ELSE IF signature.val # <<71, 73, 70, 56, 55, 97>>        \* 'GIF87a'
                     /\ signature.val # <<71, 73, 70, 56, 57, 97>>     \* 'GIF89a'
             THEN NoMatch
             ELSE IF ~(width.ok /\ height.ok) THEN Raised
             ELSE IF width.val = 0 \/ height.val = 0 THEN NoMatch
             ELSE ParseResult(width.val, height.val, "gif", "image/gif")])])])

-----------------------------------------------------------------------------
(* PNG *)

PNG_SIGNATURE == <<137, 80, 78, 71, 13, 10, 26, 10>>

getPNGChannels(colorType) ==
    IF colorType = 0 THEN 1
    ELSE IF colorType = 2 THEN 3
    ELSE IF colorType = 3 THEN 1
    ELSE IF colorType = 4 THEN 2
    ELSE IF colorType = 6 THEN 4
    ELSE 3

\* the switch over chunkType: the accumulators after one chunk whose data
\* (chunkLength bytes and the CRC) lies inside the buffer
pngChunk(buf, st, chunkType, chunkLength, chunkDataStart) ==
    IF chunkType = <<73, 72, 68, 82>> /\ chunkLength = 13                \* 'IHDR'
    THEN Let([width \in {readUInt32(buf, chunkDataStart, FALSE)} |->
         Let([height \in {readUInt32(buf, width.pos, FALSE)} |->
         Let([bitDepth \in {readUInt8(buf, height.pos)} |->
         Let([colorType \in {readUInt8(buf, bitDepth.pos)} |->
             [st EXCEPT !.width = width.val, !.height = height.val,
                        !.bitDepth = bitDepth.val,
                        !.channels = getPNGChannels(colorType.val),
                        !.threw = ~(width.ok /\ height.ok /\ bitDepth.ok /\ colorType.ok)]])])])])
    ELSE IF chunkType = <<112, 72, 89, 115>> /\ chunkLength = 9          \* 'pHYs'
    THEN Let([xPixelsPerUnit \in {readUInt32(buf, chunkDataStart, FALSE)} |->
         Let([yPixelsPerUnit \in {readUInt32(buf, xPixelsPerUnit.pos, FALSE)} |->
         Let([unit \in {readUInt8(buf, yPixelsPerUnit.pos)} |->
         Let([st1 \in {[st EXCEPT !.threw = ~(xPixelsPerUnit.ok /\ yPixelsPerUnit.ok /\ unit.ok)]} |->
             IF unit.val = 1
             THEN [st1 EXCEPT !.wResolution = RoundRatio(xPixelsPerUnit.val, 254, 10000),
                              !.hResolution = RoundRatio(yPixelsPerUnit.val, 254, 10000)]
             ELSE IF unit.val = 0
             THEN [st1 EXCEPT !.wResolution = xPixelsPerUnit.val,
                              !.hResolution = yPixelsPerUnit.val]
             ELSE st1])])])])
    ELSE IF chunkType = <<115, 82, 71, 66>> /\ chunkLength >= 1          \* 'sRGB'
    THEN [st EXCEPT !.colorSpace = "sRGB"]
    ELSE IF chunkType = <<105, 67, 67, 80>> /\ chunkLength > 0           \* 'iCCP'
    THEN \* the peek/skip loop stops at the first 0 byte or after maxNameLength bytes
         Let([maxNameLength \in {Min(chunkLength, 79)} |->
         Let([nameEnd \in {ScanToNull(buf, chunkDataStart, chunkDataStart + maxNameLength)} |->
         Let([name \in {
                     readString(buf, seek(buf, nameEnd, chunkDataStart).pos,
                                nameEnd - chunkDataStart, "latin1")} |->
             IF nameEnd > chunkDataStart
             THEN [st EXCEPT !.iccProfile = FromFile(name.val), !.threw = ~name.ok]
             ELSE st])])])
    ELSE IF chunkType = <<103, 65, 77, 65>> /\ chunkLength = 4           \* 'gAMA'
    THEN Let([gammaValue \in {readUInt32(buf, chunkDataStart, FALSE)} |->
             [st EXCEPT !.gamma = gammaValue.val, !.threw = ~gammaValue.ok]])
    ELSE st

RECURSIVE pngChunks(_, _)
\* the while loop of parsePNG, the reader at st.pos
pngChunks(buf, st) ==
    IF ~(remaining(buf, st.pos) >= 12) THEN st
    ELSE Let([chunkLength \in {readUInt32(buf, st.pos, FALSE)} |->
         Let([chunkType \in {readString(buf, chunkLength.pos, 4, "utf8")} |->
         Let([chunkDataStart \in {chunkType.pos} |->
         Let([st1 \in {pngChunk(buf, st, chunkType.val, chunkLength.val, chunkDataStart)} |->
         Let([next \in {seek(buf, chunkDataStart, chunkDataStart + chunkLength.val + 4)} |->
             IF ~(chunkLength.ok /\ chunkType.ok) THEN [st EXCEPT !.threw = TRUE]
             ELSE IF ~canRead(buf, chunkDataStart, chunkLength.val + 4) THEN st
             ELSE IF st1.threw THEN st1
             ELSE IF ~next.ok THEN [st1 EXCEPT !.threw = TRUE]
             ELSE IF chunkType.val = <<73, 69, 78, 68>>                  \* 'IEND'
             THEN [st1 EXCEPT !.pos = next.pos]
             ELSE pngChunks(buf, [st1 EXCEPT !.pos = next.pos])])])])])])

\* gamma holds gammaValue, the ratio's numerator over 100000
parsePNG(buf) ==
    IF Len(buf) < 24 THEN NoMatch
    ELSE IF Slice(buf, 0, 8) # PNG_SIGNATURE THEN NoMatch
    ELSE Let([st \in {
                   pngChunks(buf, [pos |-> seek(buf, 0, 8).pos, threw |-> FALSE,
                                   width |-> Undef, height |-> Undef,
                                   wResolution |-> Undef, hResolution |-> Undef,
                                   bitDepth |-> Undef, channels |-> Undef,
                                   colorSpace |-> "undefined", iccProfile |-> NoText,
                                   gamma |-> Undef])} |->
             IF st.threw THEN Raised
             ELSE IF st.width > 0 /\ st.height > 0
             THEN [ParseResult(st.width, st.height, "png", "image/png") EXCEPT
                      !.wResolution = st.wResolution, !.hResolution = st.hResolution,
                      !.bitDepth = st.bitDepth, !.channels = st.channels,
                      !.colorSpace = st.colorSpace, !.iccProfile = st.iccProfile,
                      !.gamma = st.gamma]
             ELSE NoMatch])

-----------------------------------------------------------------------------
(* WebP *)

NoDimensions == [found |-> FALSE, threw |-> FALSE, width |-> Undef, height |-> Undef]

Dimensions(w, h) == [found |-> TRUE, threw |-> FALSE, width |-> w, height |-> h]

\* the reader stands at the start of the 'VP8 ' chunk data
parseVP8(buf, pos) ==
    IF ~canRead(buf, pos, 10) THEN NoDimensions
    ELSE Let([startCode \in {readBytes(buf, skip(buf, pos, 3).pos, 3)} |->
         Let([sizeInfo \in {readUInt32(buf, startCode.pos, TRUE)} |->
             IF ~startCode.ok THEN [NoDimensions EXCEPT !.threw = TRUE]
             ELSE IF startCode.val # <<157, 1, 42>> THEN NoDimensions
             ELSE IF ~sizeInfo.ok THEN [NoDimensions EXCEPT !.threw = TRUE]
             ELSE Dimensions(sizeInfo.val % 16384, (sizeInfo.val \div 65536) % 16384)])])

\* the reader stands at the start of the 'VP8L' chunk data
parseVP8L(buf, pos) ==
    IF ~canRead(buf, pos, 5) THEN NoDimensions
    ELSE Let([signature \in {readUInt8(buf, pos)} |->
         Let([bits \in {readUInt32(buf, signature.pos, TRUE)} |->
             IF ~signature.ok THEN [NoDimensions EXCEPT !.threw = TRUE]
             ELSE IF signature.val # 47 THEN NoDimensions
             ELSE IF ~bits.ok THEN [NoDimensions EXCEPT !.threw = TRUE]
             ELSE Dimensions((bits.val % 16384) + 1, ((bits.val \div 16384) % 16384) + 1)])])

\* no VP8X data: width and height stay undefined, hasAlpha stays false
NoVP8X == NoDimensions @@ [hasAlpha |-> FALSE]

\* the reader stands at the start of the 'VP8X' chunk data; hasAlpha is bit 4
\* of the flags byte
parseVP8X(buf, pos) ==
    IF ~canRead(buf, pos, 10) THEN NoVP8X
    ELSE Let([flags \in {readUInt8(buf, pos)} |->
         Let([widthBytes \in {readBytes(buf, skip(buf, flags.pos, 3).pos, 3)} |->
         Let([heightBytes \in {readBytes(buf, widthBytes.pos, 3)} |->
             IF ~(flags.ok /\ widthBytes.ok /\ heightBytes.ok)
             THEN [NoVP8X EXCEPT !.threw = TRUE]
             ELSE Dimensions(At(widthBytes.val, 0) + 256 * At(widthBytes.val, 1)
                                 + 65536 * At(widthBytes.val, 2) + 1,
                             At(heightBytes.val, 0) + 256 * At(heightBytes.val, 1)
                                 + 65536 * At(heightBytes.val, 2) + 1)
                  @@ [hasAlpha |-> (flags.val \div 16) % 2 = 1]])])])

\* (chunkSize + 1) & ~1
PadToEven(chunkSize) == chunkSize + (chunkSize % 2)

RECURSIVE webpFirstPass(_, _)
\* first pass: stops at the first VP8X chunk; [threw, vp8x]
webpFirstPass(buf, pos) ==
    IF ~canRead(buf, pos, 8) THEN [threw |-> FALSE, vp8x |-> NoVP8X]
    ELSE Let([chunkId \in {readString(buf, pos, 4, "utf8")} |->
         Let([chunkSize \in {readUInt32(buf, chunkId.pos, TRUE)} |->
         Let([chunkStart \in {chunkSize.pos} |->
         Let([next \in {seek(buf, chunkStart, chunkStart + PadToEven(chunkSize.val))} |->
             IF ~(chunkId.ok /\ chunkSize.ok) THEN [threw |-> TRUE, vp8x |-> NoVP8X]
             ELSE IF ~canRead(buf, chunkStart, chunkSize.val)
             THEN [threw |-> FALSE, vp8x |-> NoVP8X]
             ELSE IF chunkId.val = <<86, 80, 56, 88>>                     \* 'VP8X'
             THEN Let([vp8xData \in {parseVP8X(buf, chunkStart)} |->
                      [threw |-> vp8xData.threw, vp8x |-> vp8xData]])
             ELSE IF ~next.ok THEN [threw |-> TRUE, vp8x |-> NoVP8X]
             ELSE webpFirstPass(buf, next.pos)])])])])

\* the six profilePatterns, in order; each is a literal text
ProfilePatterns ==
    << <<65, 100, 111, 98, 101, 32, 82, 71, 66, 32, 40, 49, 57, 57, 56, 41>>,      \* 'Adobe RGB (1998)'
       <<115, 82, 71, 66, 32, 73, 69, 67, 54, 49, 57, 54, 54, 45, 50, 46, 49>>,    \* 'sRGB IEC61966-2.1'
       <<68, 105, 115, 112, 108, 97, 121, 32, 80, 51>>,                            \* 'Display P3'
       <<80, 114, 111, 80, 104, 111, 116, 111, 32, 82, 71, 66>>,                   \* 'ProPhoto RGB'
       <<82, 101, 99, 46, 32, 50, 48, 50, 48>>,                                    \* 'Rec. 2020'
       <<68, 67, 73, 45, 80, 51>> >>                                               \* 'DCI-P3'

\* index of the first pattern that occurs in profileStr, 0 when none does
FirstPattern(profileStr) ==
    Let([hits \in {{k \in 1..Len(ProfilePatterns) : Includes(profileStr, ProfilePatterns[k])}} |->
        IF hits = {} THEN 0 ELSE CHOOSE k \in hits : \A j \in hits : k <= j])

\* buffer.toString('ascii') with every \0 replaced by ' '
NullsToSpaces(bytes) ==
    [i \in 1..Len(bytes) |-> IF bytes[i] % 128 = 0 THEN 32 ELSE bytes[i] % 128]

\* text.replace(/\0/g, '')
RECURSIVE StripNulls(_)
StripNulls(text) ==
    IF text = <<>> THEN <<>>
    ELSE IF Head(text) = 0 THEN StripNulls(Tail(text))
    ELSE <<Head(text)>> \o StripNulls(Tail(text))

Printable(b) == b >= 32 /\ b <= 126

RECURSIVE RunEnd(_, _)
\* while (endPos < length && printable(profileData[endPos])) endPos++
RunEnd(profileData, endPos) ==
    IF endPos < Len(profileData) /\ Printable(At(profileData, endPos))
    THEN RunEnd(profileData, endPos + 1)
    ELSE endPos

RECURSIVE PrintableName(_, _, _)
\* the for loop over i: the first printable run longer than 4 whose trimmed
\* text is not empty and contains neither 'text' nor 'Copyright'; <<>> when none
PrintableName(profileData, i, limit) ==
    IF ~(i < limit) THEN <<>>
    ELSE Let([endPos \in {RunEnd(profileData, i)} |->
         Let([possibleName \in {Trim(Decode(Slice(profileData, i, endPos), "ascii"))} |->
             IF Printable(At(profileData, i)) /\ endPos - i > 4 /\ possibleName # <<>>
                /\ ~Includes(possibleName, <<116, 101, 120, 116>>)                       \* 'text'
                /\ ~Includes(possibleName, <<67, 111, 112, 121, 114, 105, 103, 104, 116>>)  \* 'Copyright'
             THEN possibleName
             ELSE PrintableName(profileData, i + 1, limit)])])

\* the name found through the 'desc' tag: [threw, set, name]
descName(profileData, descIndex) ==
    Let([none \in {[threw |-> FALSE, set |-> FALSE, name |-> <<>>]} |->
    Let([descOffset \in {readUInt32(profileData, descIndex + 4, FALSE)} |->
    Let([descSize \in {readUInt32(profileData, descIndex + 8, FALSE)} |->
    Let([typeSignature \in {readUInt32(profileData, descOffset.val, FALSE)} |->
    Let([asciiLength \in {readUInt32(profileData, descOffset.val + 8, FALSE)} |->
        IF ~(descIndex > 0 /\ descIndex + 12 < Len(profileData)) THEN none
        ELSE IF ~(descOffset.ok /\ descSize.ok) THEN [none EXCEPT !.threw = TRUE]
        ELSE IF ~(descOffset.val < Len(profileData) /\ descSize.val > 0) THEN none
        ELSE IF ~typeSignature.ok THEN [none EXCEPT !.threw = TRUE]
        ELSE IF ~(typeSignature.val = 1684370275                       \* 0x64657363 'desc'
                  /\ descOffset.val + 12 < Len(profileData)) THEN none
        ELSE IF ~asciiLength.ok THEN [none EXCEPT !.threw = TRUE]
        ELSE IF asciiLength.val > 0
                /\ descOffset.val + 12 + asciiLength.val <= Len(profileData)
        THEN [threw |-> FALSE, set |-> TRUE,
              name |-> Trim(StripNulls(Decode(
                  Slice(profileData, descOffset.val + 12,
                        descOffset.val + 12 + asciiLength.val), "ascii")))]
        ELSE none])])])])])

\* case 'ICCP' of the second pass.  st.iccProfileName is NoText while
\* undefined, FromFile(text) otherwise; FromFile(<<>>) is the empty string.
webpICCP(buf, st, chunkSize, chunkStart) ==
    IF ~(chunkSize > 0 /\ canRead(buf, chunkStart, Min(chunkSize, 256))) THEN st
    ELSE
    Let([searchLimit \in {Min(chunkSize, 512)} |->
    Let([profileData \in {readBytes(buf, chunkStart, searchLimit).val} |->
    Let([descIndex \in {IndexOf(profileData, <<100, 101, 115, 99>>, 0)} |->   \* 'desc'
    Let([byTag \in {descName(profileData, descIndex)} |->
    Let([name1 \in {IF byTag.set THEN FromFile(byTag.name) ELSE st.iccProfileName} |->
    Let([falsy1 \in {name1 \in {NoText, FromFile(<<>>)}} |->
    Let([k \in {FirstPattern(NullsToSpaces(profileData))} |->
    Let([byPattern \in {falsy1 /\ k > 0} |->
    Let([name2 \in {IF byPattern THEN FromFile(ProfilePatterns[k]) ELSE name1} |->
    Let([cs2 \in {
               IF byPattern THEN getColorSpaceFromString(ProfilePatterns[k])
               ELSE st.colorSpace} |->
    Let([falsy2 \in {name2 \in {NoText, FromFile(<<>>)}} |->
    Let([startSearch \in {descIndex + 12} |->
    Let([run \in {
               IF falsy2 /\ descIndex > 0 /\ startSearch < Len(profileData) - 20
               THEN PrintableName(profileData, startSearch,
                                  Min(startSearch + 200, Len(profileData) - 1))
               ELSE <<>>} |->
    Let([name3 \in {IF run # <<>> THEN FromFile(run) ELSE name2} |->
    Let([cs3 \in {IF run # <<>> THEN getColorSpaceFromString(run) ELSE cs2} |->
    Let([scanned \in {canRead(buf, chunkStart, searchLimit)} |->
    Let([name4 \in {IF scanned THEN name3 ELSE st.iccProfileName} |->
    Let([cs4 \in {IF scanned THEN cs3 ELSE st.colorSpace} |->
    Let([name5 \in {
                 IF name4 = NoText
                 THEN FromFile(<<69, 109, 98, 101, 100, 100, 101, 100, 32, 73, 67, 67,
                                 32, 80, 114, 111, 102, 105, 108, 101>>)   \* 'Embedded ICC Profile'
                 ELSE name4} |->
        IF scanned /\ byTag.threw THEN [st EXCEPT !.threw = TRUE]
        ELSE [st EXCEPT !.iccProfileName = name5,
                        !.colorSpace = IF name5 # FromFile(<<>>) /\ cs4 = "undefined"
                                       THEN getColorSpaceFromString(name5.text)
                                       ELSE cs4]])])])])])])])])])])])])])])])])])])])

\* a test that lets every VP8 and VP8L chunk set the dimensions
alwaysUnset(st) == TRUE

\* `!width || !height`
dimensionsUnset(st) == st.width \in {Undef, 0} \/ st.height \in {Undef, 0}

\* the switch over chunkId of the second pass
webpChunk(buf, st, chunkId, chunkSize, chunkStart) ==
    Let([unset \in {dimensionsUnset(st)} |->
        IF chunkId = <<86, 80, 56, 32>> /\ unset                        \* 'VP8 '
        THEN Let([vp8Data \in {parseVP8(buf, chunkStart)} |->
                 IF vp8Data.threw THEN [st EXCEPT !.threw = TRUE]
                 ELSE IF vp8Data.found
                 THEN [st EXCEPT !.width = vp8Data.width, !.height = vp8Data.height]
                 ELSE st])
        ELSE IF chunkId = <<86, 80, 56, 76>> /\ unset                   \* 'VP8L'
        THEN Let([vp8lData \in {parseVP8L(buf, chunkStart)} |->
                 IF vp8lData.threw THEN [st EXCEPT !.threw = TRUE]
                 ELSE IF vp8lData.found
                 THEN [st EXCEPT !.width = vp8lData.width, !.height = vp8lData.height,
                                 !.hasAlpha = TRUE]
                 ELSE st])
        ELSE IF chunkId = <<73, 67, 67, 80>>                            \* 'ICCP'
        THEN webpICCP(buf, st, chunkSize, chunkStart)
        ELSE st])

RECURSIVE webpSecondPass(_, _)
\* second pass, the reader at st.pos
webpSecondPass(buf, st) ==
    IF ~canRead(buf, st.pos, 8) THEN st
    ELSE Let([chunkId \in {readString(buf, st.pos, 4, "utf8")} |->
         Let([chunkSize \in {readUInt32(buf, chunkId.pos, TRUE)} |->
         Let([chunkStart \in {chunkSize.pos} |->
         Let([st1 \in {webpChunk(buf, st, chunkId.val, chunkSize.val, chunkStart)} |->
         Let([next \in {seek(buf, chunkStart, chunkStart + PadToEven(chunkSize.val))} |->
             IF ~(chunkId.ok /\ chunkSize.ok) THEN [st EXCEPT !.threw = TRUE]
             ELSE IF ~canRead(buf, chunkStart, chunkSize.val) THEN st
             ELSE IF st1.threw THEN st1
             ELSE IF ~next.ok THEN [st1 EXCEPT !.threw = TRUE]
             ELSE webpSecondPass(buf, [st1 EXCEPT !.pos = next.pos])])])])])])

parseWebP(buf) ==
    IF Len(buf) < 12 THEN NoMatch
    ELSE
    Let([riff \in {readString(buf, 0, 4, "utf8")} |->
    Let([webp \in {readString(buf, skip(buf, riff.pos, 4).pos, 4, "utf8")} |->
    Let([firstPassPosition \in {webp.pos} |->
    Let([first \in {webpFirstPass(buf, firstPassPosition)} |->
    Let([st \in {
              webpSecondPass(buf,
                  [pos |-> seek(buf, 0, firstPassPosition).pos, threw |-> FALSE,
                   width |-> first.vp8x.width, height |-> first.vp8x.height,
                   hasAlpha |-> first.vp8x.hasAlpha, colorSpace |-> "undefined",
                   iccProfileName |-> NoText])} |->
        IF ~riff.ok THEN Raised
        ELSE IF riff.val # <<82, 73, 70, 70>> THEN NoMatch                \* 'RIFF'
        ELSE IF ~webp.ok THEN Raised
        ELSE IF webp.val # <<87, 69, 66, 80>> THEN NoMatch                \* 'WEBP'
        ELSE IF first.threw \/ st.threw THEN Raised
        ELSE IF st.width > 0 /\ st.height > 0
        THEN [ParseResult(st.width, st.height, "webp", "image/webp") EXCEPT
                 !.colorSpace = st.colorSpace,
                 !.iccProfile = IF st.iccProfileName = FromFile(<<>>) THEN NoText
                                ELSE st.iccProfileName,
                 !.channels = IF st.hasAlpha THEN 4 ELSE 3]
        ELSE NoMatch])])])])])

-----------------------------------------------------------------------------
(* BMP *)

DIB_HEADER_TYPES == [BITMAPCOREHEADER |-> 12, BITMAPINFOHEADER |-> 40]

\* Math.abs
Abs(x) == IF x < 0 THEN 0 - x ELSE x

\* channels from the bit depth, Undef when the depth is none of the listed ones
bmpChannels(bitDepth) ==
    IF bitDepth \in {1, 4, 8} THEN 1
    ELSE IF bitDepth \in {16, 24} THEN 3
    ELSE IF bitDepth = 32 THEN 4
    ELSE Undef

\* the fields of the DIB header, the reader at pos just after dibHeaderSize:
\* [threw, width, height, bitDepth, wResolution, hResolution]
bmpHeader(buf, pos, dibHeaderSize) ==
    IF dibHeaderSize = DIB_HEADER_TYPES.BITMAPCOREHEADER
    THEN Let([width \in {readUInt16(buf, pos, TRUE)} |->
         Let([height \in {readUInt16(buf, width.pos, TRUE)} |->
         Let([bitDepth \in {readUInt16(buf, skip(buf, height.pos, 2).pos, TRUE)} |->
             [threw |-> ~(width.ok /\ height.ok /\ bitDepth.ok),
              width |-> width.val, height |-> height.val, bitDepth |-> bitDepth.val,
              wResolution |-> Undef, hResolution |-> Undef]])])])
    ELSE Let([width \in {readInt32(buf, pos, TRUE)} |->
         Let([height \in {readInt32(buf, width.pos, TRUE)} |->
         Let([bitDepth \in {readUInt16(buf, skip(buf, height.pos, 2).pos, TRUE)} |->
         Let([sizes \in {skip(buf, bitDepth.pos, 8)} |->
         Let([withResolution \in {dibHeaderSize >= DIB_HEADER_TYPES.BITMAPINFOHEADER} |->
         Let([xPixelsPerMeter \in {readInt32(buf, sizes.pos, TRUE)} |->
         Let([yPixelsPerMeter \in {readInt32(buf, xPixelsPerMeter.pos, TRUE)} |->
         Let([positive \in {withResolution /\ xPixelsPerMeter.val > 0 /\ yPixelsPerMeter.val > 0} |->
             [threw |-> ~(width.ok /\ height.ok /\ bitDepth.ok)
                        \/ (withResolution /\ ~(xPixelsPerMeter.ok /\ yPixelsPerMeter.ok)),
              width |-> width.val, height |-> Abs(height.val), bitDepth |-> bitDepth.val,
              wResolution |-> IF positive THEN RoundRatio(xPixelsPerMeter.val, 254, 10000)
                              ELSE Undef,
              hResolution |-> IF positive THEN RoundRatio(yPixelsPerMeter.val, 254, 10000)
                              ELSE Undef]])])])])])])])])

parseBMP(buf) ==
    IF Len(buf) < 26 THEN NoMatch
    ELSE
    Let([signature \in {readString(buf, 0, 2, "utf8")} |->
    Let([dibHeaderSize \in {readUInt32(buf, skip(buf, skip(buf, signature.pos, 8).pos, 4).pos, TRUE)} |->
    Let([header \in {bmpHeader(buf, dibHeaderSize.pos, dibHeaderSize.val)} |->
        IF ~signature.ok THEN Raised
        ELSE IF signature.val # <<66, 77>> THEN NoMatch                   \* 'BM'
        ELSE IF ~dibHeaderSize.ok THEN Raised
        ELSE IF ~canRead(buf, dibHeaderSize.pos, dibHeaderSize.val - 4) THEN NoMatch
        ELSE IF ~(dibHeaderSize.val >= DIB_HEADER_TYPES.BITMAPCOREHEADER) THEN NoMatch
        ELSE IF header.threw THEN Raised
        ELSE IF header.width > 0 /\ header.height > 0
        THEN [ParseResult(header.width, header.height, "bmp", "image/bmp") EXCEPT
                 !.wResolution = header.wResolution, !.hResolution = header.hResolution,
                 !.bitDepth = header.bitDepth, !.channels = bmpChannels(header.bitDepth)]
        ELSE NoMatch])])])

-----------------------------------------------------------------------------
(* ICO *)

\* one 16-byte directory entry at pos; a stored width or height of 0 means 256
parseDirectoryEntry(buf, pos) ==
    IF ~canRead(buf, pos, 16) THEN [found |-> FALSE, threw |-> FALSE, pos |-> pos]
    ELSE Let([width \in {readUInt8(buf, pos)} |->
         Let([height \in {readUInt8(buf, width.pos)} |->
         Let([colorCount \in {readUInt8(buf, height.pos)} |->
         Let([reserved \in {readUInt8(buf, colorCount.pos)} |->
         Let([planes \in {readUInt16(buf, reserved.pos, TRUE)} |->
         Let([bitCount \in {readUInt16(buf, planes.pos, TRUE)} |->
         Let([bytesInRes \in {readUInt32(buf, bitCount.pos, TRUE)} |->
         Let([imageOffset \in {readUInt32(buf, bytesInRes.pos, TRUE)} |->
             [found |-> TRUE,
              threw |-> ~(width.ok /\ height.ok /\ colorCount.ok /\ reserved.ok /\ planes.ok
                          /\ bitCount.ok /\ bytesInRes.ok /\ imageOffset.ok),
              pos |-> imageOffset.pos,
              width |-> IF width.val = 0 THEN 256 ELSE width.val,
              height |-> IF height.val = 0 THEN 256 ELSE height.val,
              bitCount |-> bitCount.val]])])])])])])])])

\* a comparison that looks at the width only
widerEntry(entry, st) ==
    entry.found /\ entry.width > 0 /\ entry.height > 0 /\ entry.width > st.maxWidth

\* the entry is larger than the best one so far, or as large with more bits
largerEntry(entry, st) ==
    /\ entry.found /\ entry.width > 0 /\ entry.height > 0
    /\ \/ entry.width > st.maxWidth
       \/ entry.width = st.maxWidth /\ entry.height > st.maxHeight
       \/ entry.width = st.maxWidth /\ entry.height = st.maxHeight
          /\ entry.bitCount > st.bitCount

RECURSIVE icoEntries(_, _, _, _)
\* the for loop over the directory: i entries done.  st.best is FALSE while
\* bestEntry is null; st.bitCount is bestEntry?.bitCount ?? 0
icoEntries(buf, count, i, st) ==
    IF ~(i < count) THEN st
    ELSE Let([entry \in {parseDirectoryEntry(buf, st.pos)} |->
         Let([better \in {largerEntry(entry, st)} |->
             IF entry.threw THEN [st EXCEPT !.threw = TRUE]
             ELSE icoEntries(buf, count, i + 1,
                      IF better
                      THEN [st EXCEPT !.pos = entry.pos, !.best = TRUE,
                                      !.maxWidth = entry.width, !.maxHeight = entry.height,
                                      !.bitCount = entry.bitCount]
                      ELSE [st EXCEPT !.pos = entry.pos])])])

parseICO(buf) ==
    IF Len(buf) < 6 THEN NoMatch
    ELSE
    Let([reserved \in {readUInt16(buf, 0, TRUE)} |->
    Let([type \in {readUInt16(buf, reserved.pos, TRUE)} |->
    Let([count \in {readUInt16(buf, type.pos, TRUE)} |->
        IF ~(reserved.ok /\ type.ok /\ count.ok) THEN Raised
        ELSE IF reserved.val # 0 \/ type.val # 1 \/ count.val = 0 THEN NoMatch
        ELSE IF ~canRead(buf, count.pos, count.val * 16) THEN NoMatch
        ELSE
        Let([st \in {
                  icoEntries(buf, count.val, 0,
                      [pos |-> count.pos, threw |-> FALSE, best |-> FALSE,
                       maxWidth |-> 0, maxHeight |-> 0, bitCount |-> 0])} |->
            IF st.threw THEN Raised
            ELSE IF st.best THEN ParseResult(st.maxWidth, st.maxHeight, "ico", "image/x-icon")
            ELSE NoMatch])])])])

-----------------------------------------------------------------------------
(* AVIF *)

\* the colour space getColorSpaceFromProfileData pairs with each of the
\* ProfilePatterns (the same six patterns, in the same order)
ProfileColorSpaces ==
    <<"Adobe RGB", "sRGB", "Display P3", "ProPhoto RGB", "Rec. 2020", "DCI-P3">>

RECURSIVE ftypBrands(_, _, _, _)
\* the loop over the compatible brands
ftypBrands(buf, pos, brandsRead, compatibleBrandsSize) ==
    IF ~(brandsRead < compatibleBrandsSize /\ canRead(buf, pos, 4)) THEN FALSE
    ELSE Let([brand \in {readString(buf, pos, 4, "utf8")} |->
             IF brand.val = <<97, 118, 105, 102>> \/ brand.val = <<97, 118, 105, 115>>  \* 'avif', 'avis'
             THEN TRUE
             ELSE ftypBrands(buf, brand.pos, brandsRead + 4, compatibleBrandsSize)])

\* a ftyp test that accepts every brand
anyBrand(buf, pos, size) == ~(~canRead(buf, pos, 8) \/ size < 8)

\* the reader stands at the start of the ftyp payload of size bytes
parseFtyp(buf, pos, size) ==
    IF ~canRead(buf, pos, 8) \/ size < 8 THEN FALSE
    ELSE Let([majorBrand \in {readString(buf, pos, 4, "utf8")} |->
             IF majorBrand.val = <<97, 118, 105, 102>> THEN TRUE           \* 'avif'
             ELSE ftypBrands(buf, skip(buf, majorBrand.pos, 4).pos, 0, size - 8)])

\* parseBox returning null
NoBox == [kind |-> "none", type |-> <<>>, size |-> 0, dataOffset |-> 0]

\* null when kind = "none"
parseBox(buf, boxStart) ==
    IF ~canRead(buf, boxStart, 8) THEN NoBox
    ELSE Let([size \in {readUInt32(buf, boxStart, FALSE)} |->
         Let([type \in {readString(buf, size.pos, 4, "utf8")} |->
         Let([extended \in {readUInt32(buf, skip(buf, type.pos, 4).pos, FALSE)} |->
             IF size.val = 1
             THEN IF ~canRead(buf, type.pos, 8) THEN NoBox
                  ELSE [kind |-> "box", type |-> type.val, size |-> extended.val,
                        dataOffset |-> extended.pos]
             ELSE [kind |-> "box", type |-> type.val,
                   size |-> IF size.val = 0 THEN Len(buf) - boxStart ELSE size.val,
                   dataOffset |-> type.pos]])])])

\* a search for a box that ends without one
BoxSearch(kind) == [kind |-> kind, position |-> 0, size |-> 0]

RECURSIVE findBox(_, _, _, _)
\* kind "found": {position, size}; "none": null; "threw": the seek to the box
\* end failed; "hangs": the seek to the box end left the reader at boxStart,
\* so the loop repeats the same iteration for ever
findBox(buf, pos, endPosition, boxType) ==
    IF ~(pos < endPosition) THEN BoxSearch("none")
    ELSE Let([boxStart \in {pos} |->
         Let([box \in {parseBox(buf, boxStart)} |->
         Let([next \in {seek(buf, boxStart, boxStart + box.size)} |->
             IF box.kind = "none" THEN BoxSearch("none")
             ELSE IF box.type = boxType
             THEN [kind |-> "found", position |-> box.dataOffset,
                   size |-> box.size - (box.dataOffset - boxStart)]
             ELSE IF ~next.ok THEN BoxSearch("threw")
             ELSE IF next.pos = boxStart THEN BoxSearch("hangs")
             ELSE findBox(buf, next.pos, endPosition, boxType)])])])

parseIspe(buf, pos) ==
    IF ~canRead(buf, pos, 12) THEN NoDimensions
    ELSE Let([width \in {readUInt32(buf, skip(buf, pos, 4).pos, FALSE)} |->
         Let([height \in {readUInt32(buf, width.pos, FALSE)} |->
             [Dimensions(width.val, height.val) EXCEPT !.threw = ~(width.ok /\ height.ok)]])])

\* null when found = FALSE; colorSpace "undefined" and iccProfile NoText are
\* the properties the returned object does not have
parseColr(buf, pos, size) ==
    Let([none \in {
                [found |-> FALSE, threw |-> FALSE,
                 colorSpace |-> "undefined", iccProfile |-> NoText]} |->
    Let([colorType \in {readString(buf, pos, 4, "utf8")} |->
    Let([iccDataSize \in {size - 4} |->
    Let([iccData \in {readBytes(buf, colorType.pos, iccDataSize).val} |->
    Let([k \in {FirstPattern(NullsToSpaces(Slice(iccData, 0, Min(Len(iccData), 512))))} |->
    Let([colorPrimaries \in {readUInt16(buf, colorType.pos, FALSE)} |->
        IF ~canRead(buf, pos, 4) THEN none
        ELSE IF colorType.val = <<112, 114, 111, 102>>                     \* 'prof'
                \/ colorType.val = <<114, 73, 67, 67>>                     \* 'rICC'
        THEN IF canRead(buf, colorType.pos, iccDataSize)
             THEN [found |-> TRUE, threw |-> FALSE,
                   colorSpace |-> IF k > 0 THEN ProfileColorSpaces[k] ELSE "ICC Profile",
                   iccProfile |-> IF k > 0 THEN FromFile(ProfilePatterns[k])
                                  ELSE FromFile(<<69, 109, 98, 101, 100, 100, 101, 100, 32, 73, 67, 67,
                                                  32, 80, 114, 111, 102, 105, 108, 101>>)]   \* 'Embedded ICC Profile'
             ELSE none
        ELSE IF colorType.val = <<110, 99, 108, 120>>                      \* 'nclx'
                /\ canRead(buf, colorType.pos, 7)
        THEN [found |-> TRUE, threw |-> ~colorPrimaries.ok,
              colorSpace |-> IF colorPrimaries.val = 1 THEN "sRGB"
                             ELSE IF colorPrimaries.val = 9 THEN "Rec. 2020"
                             ELSE IF colorPrimaries.val = 11 THEN "DCI-P3"
                             ELSE IF colorPrimaries.val = 12 THEN "Display P3"
                             ELSE "undefined",
              iccProfile |-> NoText]
        ELSE none])])])])])])

\* the pixi branch: the reader is sought to the start of the pixi payload
avifPixi(buf, st, pos) ==
    IF ~canRead(buf, pos, 5) THEN st
    ELSE Let([channelCount \in {readUInt8(buf, skip(buf, pos, 4).pos)} |->
         Let([depth \in {readUInt8(buf, channelCount.pos)} |->
             IF ~canRead(buf, channelCount.pos, channelCount.val)
             THEN [st EXCEPT !.channels = channelCount.val]
             ELSE IF ~depth.ok THEN [st EXCEPT !.kind = "threw"]
             ELSE [st EXCEPT !.channels = channelCount.val, !.bitDepth = depth.val]])])

\* the body of `if (ipcoBox)`: ispe, then colr, then pixi, each searched from
\* the start of the ipco payload
avifIpco(buf, st, ipcoBox) ==
    Let([ipcoEnd \in {ipcoBox.position + ipcoBox.size} |->
    Let([ispeBox \in {findBox(buf, ipcoBox.position, ipcoEnd, <<105, 115, 112, 101>>)} |->   \* 'ispe'
    Let([dimensions \in {
                      IF ispeBox.kind = "found" THEN parseIspe(buf, ispeBox.position)
                      ELSE NoDimensions} |->
    Let([st1 \in {
               IF dimensions.found
               THEN [st EXCEPT !.width = dimensions.width, !.height = dimensions.height]
               ELSE st} |->
    Let([colrBox \in {findBox(buf, ipcoBox.position, ipcoEnd, <<99, 111, 108, 114>>)} |->   \* 'colr'
    Let([colorInfo \in {
                     IF colrBox.kind = "found"
                     THEN parseColr(buf, colrBox.position, colrBox.size)
                     ELSE [found |-> FALSE, threw |-> FALSE,
                           colorSpace |-> "undefined", iccProfile |-> NoText]} |->
    Let([st2 \in {
               IF colorInfo.found
               THEN [st1 EXCEPT !.colorSpace = colorInfo.colorSpace,
                                !.iccProfile = colorInfo.iccProfile]
               ELSE st1} |->
    Let([pixiBox \in {findBox(buf, ipcoBox.position, ipcoEnd, <<112, 105, 120, 105>>)} |->   \* 'pixi'
        IF ispeBox.kind \in {"threw", "hangs"} THEN [st EXCEPT !.kind = ispeBox.kind]
        ELSE IF dimensions.threw THEN [st EXCEPT !.kind = "threw"]
        ELSE IF colrBox.kind \in {"threw", "hangs"} THEN [st EXCEPT !.kind = colrBox.kind]
        ELSE IF colorInfo.threw THEN [st EXCEPT !.kind = "threw"]
        ELSE IF pixiBox.kind \in {"threw", "hangs"} THEN [st EXCEPT !.kind = pixiBox.kind]
        ELSE IF pixiBox.kind = "found" THEN avifPixi(buf, st2, pixiBox.position)
        ELSE st2])])])])])])])])

\* case 'meta' with isAVIF set
avifMeta(buf, st, box, boxStart) ==
    Let([metaDataEnd \in {boxStart + box.size} |->
    Let([start \in {skip(buf, seek(buf, boxStart, box.dataOffset).pos, 4).pos} |->
    Let([iprpBox \in {findBox(buf, start, metaDataEnd, <<105, 112, 114, 112>>)} |->   \* 'iprp'
    Let([iprpEnd \in {iprpBox.position + iprpBox.size} |->
    Let([ipcoBox \in {findBox(buf, iprpBox.position, iprpEnd, <<105, 112, 99, 111>>)} |->   \* 'ipco'
        IF iprpBox.kind \in {"threw", "hangs"} THEN [st EXCEPT !.kind = iprpBox.kind]
        ELSE IF iprpBox.kind = "none" THEN st
        ELSE IF ipcoBox.kind \in {"threw", "hangs"} THEN [st EXCEPT !.kind = ipcoBox.kind]
        ELSE IF ipcoBox.kind = "none" THEN st
        ELSE avifIpco(buf, st, ipcoBox)])])])])])

RECURSIVE avifBoxes(_, _)
\* the loop over the top-level boxes; st.kind is "run" while it runs, "done"
\* once it is left, "threw" when a read or seek raised, "hangs" when an
\* iteration ends where it began without having found the dimensions
avifBoxes(buf, st) ==
    IF ~(remaining(buf, st.pos) > 0) THEN [st EXCEPT !.kind = "done"]
    ELSE Let([boxStart \in {st.pos} |->
         Let([box \in {parseBox(buf, boxStart)} |->
         Let([st1 \in {
                    IF box.type = <<102, 116, 121, 112>>                              \* 'ftyp'
                    THEN [st EXCEPT !.isAVIF =
                             parseFtyp(buf, seek(buf, boxStart, box.dataOffset).pos,
                                       box.size - (box.dataOffset - boxStart))]
                    ELSE IF box.type = <<109, 101, 116, 97>> /\ st.isAVIF             \* 'meta'
                    THEN avifMeta(buf, st, box, boxStart)
                    ELSE st} |->
         Let([next \in {seek(buf, boxStart, boxStart + box.size)} |->
             IF box.kind = "none" THEN [st EXCEPT !.kind = "done"]
             ELSE IF st1.kind # "run" THEN st1
             ELSE IF ~next.ok THEN [st1 EXCEPT !.kind = "threw"]
             ELSE IF st1.width # Undef /\ st1.height # Undef THEN [st1 EXCEPT !.kind = "done"]
             ELSE IF next.pos = boxStart THEN [st1 EXCEPT !.kind = "hangs"]
             ELSE avifBoxes(buf, [st1 EXCEPT !.pos = next.pos])])])])])

\* a decoder that never returns
Hangs == [kind |-> "hangs"]

parseAVIF(buf) ==
    IF Len(buf) < 12 THEN NoMatch
    ELSE Let([st \in {
                   avifBoxes(buf, [kind |-> "run", pos |-> 0, isAVIF |-> FALSE,
                                   width |-> Undef, height |-> Undef,
                                   colorSpace |-> "undefined", iccProfile |-> NoText,
                                   bitDepth |-> Undef, channels |-> Undef])} |->
             IF st.kind = "threw" THEN Raised
             ELSE IF st.kind = "hangs" THEN Hangs
             ELSE IF st.isAVIF /\ st.width # Undef /\ st.height # Undef
                     /\ st.width > 0 /\ st.height > 0
             THEN [ParseResult(st.width, st.height, "avif", "image/avif") EXCEPT
                      !.colorSpace = st.colorSpace,
                      !.iccProfile = st.iccProfile,
                      !.bitDepth = IF st.bitDepth = 0 THEN Undef ELSE st.bitDepth,
                      !.channels = IF st.channels = 0 THEN Undef ELSE st.channels]
             ELSE NoMatch])

-----------------------------------------------------------------------------
(* SVG.  A number is the exact ratio n / d of two integers, d > 0; the     *)
(* texts the model reads hold plain decimals or decimals with an exponent. *)

IsDigit(c) == c >= 48 /\ c <= 57

RECURSIVE DigitRun(_, _)
\* how many digits follow from the 0-based index i on
DigitRun(text, i) ==
    IF i < Len(text) /\ IsDigit(text[i + 1]) THEN 1 + DigitRun(text, i + 1) ELSE 0

RECURSIVE DigitsValue(_, _, _)
\* the value of the n digits that start at the 0-based index i
DigitsValue(text, i, n) ==
    IF n = 0 THEN 0
    ELSE 10 * DigitsValue(text, i, n - 1) + (text[i + n] - 48)

RECURSIVE Pow10(_)
Pow10(k) == IF k <= 0 THEN 1 ELSE 10 * Pow10(k - 1)

NaN == [nan |-> TRUE, n |-> 0, d |-> 1, len |-> 0]

\* the longest prefix of text from i on that [0-9]*\.?[0-9]+ matches, with
\* its value; len is the length of that prefix
Decimal(text, i) ==
    Let([int \in {DigitRun(text, i)} |->
    Let([frac \in {
                IF i + int < Len(text) /\ text[i + int + 1] = 46           \* '.'
                THEN DigitRun(text, i + int + 1) ELSE 0} |->
        IF frac > 0
        THEN [nan |-> FALSE,
              n |-> DigitsValue(text, i, int) * Pow10(frac) + DigitsValue(text, i + int + 1, frac),
              d |-> Pow10(frac), len |-> int + 1 + frac]
        ELSE IF int > 0
        THEN [nan |-> FALSE, n |-> DigitsValue(text, i, int), d |-> 1, len |-> int]
        ELSE NaN])])

\* parseFloat(text) of a text without leading white space: an optional sign,
\* a decimal, an optional exponent, anything after that ignored
parseFloat(text) ==
    Let([signed \in {Len(text) > 0 /\ text[1] \in {43, 45}} |->   \* '+', '-'
    Let([start \in {IF signed THEN 1 ELSE 0} |->
    Let([m \in {Decimal(text, start)} |->
    Let([e \in {
             start + m.len + (IF m.len = DigitRun(text, start) /\ start + m.len < Len(text)
                                 /\ text[start + m.len + 1] = 46
                              THEN 1 ELSE 0)} |->   \* '5.' is 5
    Let([hasE \in {e < Len(text) /\ text[e + 1] \in {69, 101}} |->   \* 'E', 'e'
    Let([eSigned \in {hasE /\ e + 1 < Len(text) /\ text[e + 2] \in {43, 45}} |->
    Let([eStart \in {e + 1 + (IF eSigned THEN 1 ELSE 0)} |->
    Let([eDigits \in {IF hasE THEN DigitRun(text, eStart) ELSE 0} |->
    Let([exponent \in {DigitsValue(text, eStart, eDigits)} |->
    Let([negExp \in {eSigned /\ text[e + 2] = 45} |->
    Let([sign \in {IF signed /\ text[1] = 45 THEN 0 - 1 ELSE 1} |->
        IF m.nan THEN NaN
        ELSE [nan |-> FALSE,
              n |-> sign * m.n * (IF eDigits > 0 /\ ~negExp THEN Pow10(exponent) ELSE 1),
              d |-> m.d * (IF eDigits > 0 /\ negExp THEN Pow10(exponent) ELSE 1),
              len |-> 0]])])])])])])])])])])])

RECURSIVE SplitViewBox(_, _, _)
\* text.split(/\s+|,/): cur is the piece being collected from the 0-based
\* index i on
SplitViewBox(text, i, cur) ==
    IF i >= Len(text) THEN <<cur>>
    ELSE IF text[i + 1] = 44                                                \* ','
    THEN <<cur>> \o SplitViewBox(text, i + 1, <<>>)
    ELSE IF IsSpace(text[i + 1])
    THEN IF i + 1 < Len(text) /\ IsSpace(text[i + 2])
         THEN SplitViewBox(text, i + 1, cur)
         ELSE <<cur>> \o SplitViewBox(text, i + 1, <<>>)
    ELSE SplitViewBox(text, i + 1, Append(cur, text[i + 1]))

\* null when found = FALSE
parseViewBox(viewBox) ==
    Let([pieces \in {SplitViewBox(Trim(viewBox), 0, <<>>)} |->
    Let([values \in {[k \in 1..Len(pieces) |-> parseFloat(pieces[k])]} |->
        IF Len(values) = 4 /\ \A k \in 1..4 : ~values[k].nan
        THEN [found |-> TRUE, width |-> values[3], height |-> values[4]]
        ELSE [found |-> FALSE]])])

\* '.' of a regular expression matches everything but a line terminator
IsLineTerminator(c) == c \in {10, 13, 8232, 8233}

\* null when found = FALSE
parseDimension(dimension) ==
    Let([text \in {Trim(dimension)} |->
    Let([m \in {Decimal(text, 0)} |->
    Let([rest \in {SubSeq(text, m.len + 1, Len(text))} |->
        IF m.nan \/ \E k \in 1..Len(rest) : IsLineTerminator(rest[k])
        THEN [found |-> FALSE]
        ELSE [found |-> TRUE, value |-> m,
              unit |-> IF rest = <<>> THEN Px ELSE Trim(rest)]])])])

\* value * factor, the factor written as the ratio of two integers
Times(value, num, den) == [value EXCEPT !.n = value.n * num, !.d = value.d * den]

convertToPixels(value, unit) ==
    IF unit = <<105, 110>> THEN Times(value, 96, 1)                         \* 'in'
    ELSE IF unit = <<99, 109>> THEN Times(value, 378, 10)                   \* 'cm'
    ELSE IF unit = <<109, 109>> THEN Times(value, 378, 100)                 \* 'mm'
    ELSE IF unit = <<112, 116>> THEN Times(value, 133, 100)                 \* 'pt'
    ELSE IF unit = <<112, 99>> THEN Times(value, 16, 1)                     \* 'pc'
    ELSE IF unit = <<101, 109>> \/ unit = <<114, 101, 109>> THEN Times(value, 16, 1)   \* 'em', 'rem'
    ELSE IF unit = <<101, 120>> THEN Times(value, 8, 1)                     \* 'ex'
    ELSE value

RECURSIVE SkipSpaces(_, _)
\* the 0-based index of the first character from i on that \s does not match
SkipSpaces(text, i) ==
    IF i < Len(text) /\ IsSpace(text[i + 1]) THEN SkipSpaces(text, i + 1) ELSE i

\* the 0-based index of the first character from i on that is in chars, or -1
FirstOf(text, i, chars) ==
    Let([hits \in {{k \in i..(Len(text) - 1) : text[k + 1] \in chars}} |->
        IF hits = {} THEN 0 - 1 ELSE CHOOSE k \in hits : \A j \in hits : k <= j])

\* /<svg[^>]*>/i tried from the 0-based index i on: the matched text, <<>> when
\* there is no match
svgTagFrom(content, i) ==
    Let([lower \in {SubSeq(ToLowerCase(content), 1, Len(content))} |->
    Let([hits \in {{k \in i..(Len(content) - 4) :
                      /\ MatchesAt(lower, k, <<60, 115, 118, 103>>)         \* '<svg'
                      /\ FirstOf(content, k + 4, {62}) >= 0}} |->           \* '>'
        IF hits = {} THEN <<>>
        ELSE Let([start \in {CHOOSE k \in hits : \A j \in hits : k <= j} |->
                 SubSeq(content, start + 1, FirstOf(content, start + 4, {62}) + 1)])])])

\* /name\s*=\s*["']([^"']+)["']/i tried at the 0-based index i only: the text
\* of the group, <<>> when there is no match (the group is never empty)
attributeAt(svgTag, name, i) ==
    Let([eq \in {SkipSpaces(svgTag, i + Len(name))} |->
    Let([open \in {SkipSpaces(svgTag, eq + 1)} |->
    Let([close \in {FirstOf(svgTag, open + 1, {34, 39})} |->   \* '"', "'"
        IF /\ MatchesAt(ToLowerCase(svgTag), i, name)
           /\ eq < Len(svgTag) /\ svgTag[eq + 1] = 61                  \* '='
           /\ open < Len(svgTag) /\ svgTag[open + 1] \in {34, 39}
           /\ close > open + 1
        THEN SubSeq(svgTag, open + 2, close)
        ELSE <<>>])])])

\* the same tried from the 0-based index i on: the leftmost match
attributeFrom(svgTag, name, i) ==
    Let([hits \in {{k \in i..(Len(svgTag) - Len(name)) :
                      attributeAt(svgTag, name, k) # <<>>}} |->
        IF hits = {} THEN <<>>
        ELSE attributeAt(svgTag, name, CHOOSE k \in hits : \A j \in hits : k <= j)])

\* Math.round of a positive ratio
Round(value) == (2 * value.n + value.d) \div (2 * value.d)

parseSVG(buf) ==
    IF Len(buf) < 4 THEN NoMatch
    ELSE
    Let([content \in {Decode(buf, "utf8")} |->
    Let([svgTag \in {svgTagFrom(content, 0)} |->
    Let([widthMatch \in {attributeFrom(svgTag, <<119, 105, 100, 116, 104>>, 0)} |->   \* width
    Let([heightMatch \in {attributeFrom(svgTag, <<104, 101, 105, 103, 104, 116>>, 0)} |->   \* height
    Let([viewBoxMatch \in {attributeFrom(svgTag, <<118, 105, 101, 119, 98, 111, 120>>, 0)} |->   \* viewBox
    Let([widthDim \in {IF widthMatch # <<>> THEN parseDimension(widthMatch) ELSE [found |-> FALSE]} |->
    Let([heightDim \in {IF heightMatch # <<>> THEN parseDimension(heightMatch) ELSE [found |-> FALSE]} |->
    Let([width1 \in {IF widthDim.found THEN convertToPixels(widthDim.value, widthDim.unit) ELSE NaN} |->
    Let([height1 \in {IF heightDim.found THEN convertToPixels(heightDim.value, heightDim.unit) ELSE NaN} |->
    Let([viewBoxDims \in {
                       IF (width1.nan \/ height1.nan) /\ viewBoxMatch # <<>>
                       THEN parseViewBox(viewBoxMatch) ELSE [found |-> FALSE]} |->
    Let([width2 \in {IF width1.nan /\ viewBoxDims.found THEN viewBoxDims.width ELSE width1} |->
    Let([height2 \in {IF height1.nan /\ viewBoxDims.found THEN viewBoxDims.height ELSE height1} |->
    Let([width \in {IF width2.nan THEN [nan |-> FALSE, n |-> 300, d |-> 1, len |-> 0] ELSE width2} |->
    Let([height \in {IF height2.nan THEN [nan |-> FALSE, n |-> 150, d |-> 1, len |-> 0] ELSE height2} |->
        IF ~Includes(content, <<60, 115, 118, 103>>) THEN NoMatch           \* '<svg'
        ELSE IF svgTag = <<>> THEN NoMatch
        ELSE IF width.n > 0 /\ height.n > 0
        THEN [ParseResult(Round(width), Round(height), "svg", "image/svg+xml") EXCEPT
                 !.wUnits = IF viewBoxDims.found \/ ~widthDim.found THEN Px ELSE widthDim.unit,
                 !.hUnits = IF viewBoxDims.found \/ ~heightDim.found THEN Px ELSE heightDim.unit]
        ELSE NoMatch])])])])])])])])])])])])])])

-----------------------------------------------------------------------------
(* Format detection *)

matchesSignature(buf, signature, offset) ==
    IF offset + Len(signature) > Len(buf) THEN FALSE
    ELSE \A i \in 0..(Len(signature) - 1) : At(buf, offset + i) = signature[i + 1]

jpegDetector(buf) == Len(buf) >= 2 /\ At(buf, 0) = 255 /\ At(buf, 1) = 216

pngDetector(buf) == matchesSignature(buf, <<137, 80, 78, 71, 13, 10, 26, 10>>, 0)

gifDetector(buf) ==
    /\ Len(buf) >= 6
    /\ Let([sig \in {Decode(Slice(buf, 0, 6), "ascii")} |->
           sig = <<71, 73, 70, 56, 55, 97>> \/ sig = <<71, 73, 70, 56, 57, 97>>])   \* 'GIF87a', 'GIF89a'

webpDetector(buf) ==
    /\ Len(buf) >= 12
    /\ matchesSignature(buf, <<82, 73, 70, 70>>, 0)                         \* 'RIFF'
    /\ matchesSignature(buf, <<87, 69, 66, 80>>, 8)                         \* 'WEBP'

bmpDetector(buf) == Len(buf) >= 2 /\ At(buf, 0) = 66 /\ At(buf, 1) = 77

icoDetector(buf) ==
    Len(buf) >= 4 /\ At(buf, 0) = 0 /\ At(buf, 1) = 0 /\ At(buf, 2) = 1 /\ At(buf, 3) = 0

avifDetector(buf) ==
    /\ Len(buf) >= 12
    /\ matchesSignature(buf, <<102, 116, 121, 112>>, 4)                     \* 'ftyp'
    /\ Let([brandsStr \in {Decode(Slice(buf, 8, Min(Len(buf), 100)), "ascii")} |->
           \/ Includes(brandsStr, <<97, 118, 105, 102>>)                    \* 'avif'
           \/ Includes(brandsStr, <<97, 118, 105, 115>>)])                    \* 'avis'

svgDetector(buf) ==
    Let([str \in {Decode(Slice(buf, 0, Min(Len(buf), 1024)), "utf8")} |->
        \/ Includes(str, <<60, 115, 118, 103>>)                             \* '<svg'
        \/ Includes(str, <<60, 63, 120, 109, 108>>) /\ Includes(str, <<60, 115, 118, 103>>)   \* '<?xml'
        \/ Includes(str, <<60, 33, 68, 79, 67, 84, 89, 80, 69, 32, 115, 118, 103>>)])           \* '<!DOCTYPE svg'

\* the detector registry, each entry named by its parser
detectors ==
    <<"parseJPEG", "parsePNG", "parseGIF", "parseWebP",
      "parseBMP", "parseICO", "parseAVIF", "parseSVG">>

\* detector.validate(buffer) of the entry whose parser is named
validate(parser, buf) ==
    CASE parser = "parseJPEG" -> jpegDetector(buf)
      [] parser = "parsePNG"  -> pngDetector(buf)
      [] parser = "parseGIF"  -> gifDetector(buf)
      [] parser = "parseWebP" -> webpDetector(buf)
      [] parser = "parseBMP"  -> bmpDetector(buf)
      [] parser = "parseICO"  -> icoDetector(buf)
      [] parser = "parseAVIF" -> avifDetector(buf)
      [] parser = "parseSVG"  -> svgDetector(buf)

\* a loop that keeps the last entry that validates
detectLast(buf) ==
    Let([hits \in {{i \in 1..Len(detectors) : validate(detectors[i], buf)}} |->
        IF hits = {} THEN "null"
        ELSE detectors[CHOOSE i \in hits : \A j \in hits : i >= j]])

\* the parser of the first entry that validates, "null" when none does
detectFormat(buf) ==
    Let([hits \in {{i \in 1..Len(detectors) : validate(detectors[i], buf)}} |->
        IF hits = {} THEN "null"
        ELSE detectors[CHOOSE i \in hits : \A j \in hits : i <= j]])

getAllParsers == detectors

\* the quick test on the first two bytes (and on 'ftyp' at offset 4)
mightBeImage(buf) ==
    IF Len(buf) < 2 THEN FALSE
    ELSE Let([firstByte \in {At(buf, 0)} |->
         Let([secondByte \in {At(buf, 1)} |->
             CASE firstByte = 255 -> secondByte = 216                       \* JPEG
               [] firstByte = 137 -> secondByte = 80                        \* PNG
               [] firstByte = 71  -> secondByte = 73                        \* 'GI'
               [] firstByte = 82  -> secondByte = 73                        \* 'RI'
               [] firstByte = 66  -> secondByte = 77                        \* 'BM'
               [] firstByte = 0   -> TRUE                                   \* ICO or AVIF
               [] firstByte = 60  -> TRUE                                   \* '<'
               [] OTHER -> IF Len(buf) >= 8
                           THEN matchesSignature(buf, <<102, 116, 121, 112>>, 4)   \* 'ftyp'
                           ELSE FALSE])])

\* parser(buffer)
Call(parser, buf) ==
    CASE parser = "parseJPEG" -> parseJPEG(buf)
      [] parser = "parsePNG"  -> parsePNG(buf)
      [] parser = "parseGIF"  -> parseGIF(buf)
      [] parser = "parseWebP" -> parseWebP(buf)
      [] parser = "parseBMP"  -> parseBMP(buf)
      [] parser = "parseICO"  -> parseICO(buf)
      [] parser = "parseAVIF" -> parseAVIF(buf)
      [] parser = "parseSVG"  -> parseSVG(buf)

-----------------------------------------------------------------------------
(* The BufferReader as a state machine: one action per method.  A thrown   *)
(* Error is caught by the caller, so the reader stays usable after it.     *)

\* bytes the reader buffers are made of (0 is the string terminator)
ReaderBytes == {0, 65}

RECURSIVE SeqsUpTo(_, _)
\* all sequences over S of length <= n
SeqsUpTo(S, n) ==
    IF n = 0
    THEN {<<>>}
    ELSE Let([shorter \in {SeqsUpTo(S, n - 1)} |->
             shorter \cup {Append(q, b) : q \in {x \in shorter : Len(x) = n - 1}, b \in S}])

ReaderBuffers == SeqsUpTo(ReaderBytes, MaxLen)

\* the BufferEncoding values the parsers use
Encodings == {"utf8", "latin1", "ascii"}

\* byte counts and lengths passed by callers
Args == 0..MaxArg

\* seek targets, from below 0 to beyond the longest buffer
SeekTargets == (0 - 2)..(MaxLen + 2)

NoOp == [op |-> "new", arg |-> 0, ok |-> TRUE, before |-> 0, val |-> Undef]

\* the reader after an operation that ended as r
Apply(name, arg, r) ==
    /\ position' = r.pos
    /\ lastOp' = [op |-> name, arg |-> arg, ok |-> r.ok, before |-> position, val |-> r.val]
    /\ UNCHANGED <<rbuf, littleEndian>>
    /\ UNCHANGED dispatchVars
    /\ UNCHANGED asyncVars

\* new BufferReader(buffer, littleEndian); parseImage is not running
InitReader ==
    /\ rbuf \in ReaderBuffers
    /\ littleEndian \in BOOLEAN
    /\ position = 0
    /\ lastOp = NoOp
    /\ sources = <<>>
    /\ items = <<>>
    /\ completed = <<>>
    /\ batch = NoPromise
    /\ stream = NoStream
    /\ listening = FALSE
    /\ maxBytes = 0
    /\ chunks = <<>>
    /\ totalLength = 0
    /\ timeoutId = "undefined"
    /\ promise = NoPromise
    /\ buffer = <<>>
    /\ pc = "idle"
    /\ detectedParser = "null"
    /\ idx = 0
    /\ calls = <<>>
    /\ outs = <<>>
    /\ result = [kind |-> "pending"]
    /\ direct = [parser |-> "null", out |-> [kind |-> "pending"]]
    /\ requests = <<>>
    /\ responses = <<>>
    /\ fetched = NoPromise
    /\ source = "none"
    /\ opts = [maxBytes |-> 0]
    /\ step = "idle"
    /\ bufferLength = 0
    /\ parseResult = "null"
    /\ attempt = 0
    /\ fetches = <<>>
    /\ specs = NoPromise

DoReadUInt8 == Apply("readUInt8", 1, readUInt8(rbuf, position))

DoReadUInt16 == Apply("readUInt16", 2, readUInt16(rbuf, position, littleEndian))

DoReadUInt32 == Apply("readUInt32", 4, readUInt32(rbuf, position, littleEndian))

DoReadInt32 == Apply("readInt32", 4, readInt32(rbuf, position, littleEndian))

DoReadString ==
    \E n \in Args, enc \in Encodings :
        Apply("readString", n, readString(rbuf, position, n, enc))

DoReadBytes == \E n \in Args : Apply("readBytes", n, readBytes(rbuf, position, n))

DoReadNullTerminatedString ==
    \E n \in Args, enc \in Encodings :
        Apply("readNullTerminatedString", n,
              readNullTerminatedString(rbuf, position, n, enc))

DoSkip == \E n \in Args : Apply("skip", n, skip(rbuf, position, n))

DoSeek == \E p \in SeekTargets : Apply("seek", p, seek(rbuf, position, p))

DoCanRead ==
    \E n \in Args :
        Apply("canRead", n, Done(position, IF canRead(rbuf, position, n) THEN 1 ELSE 0))

DoPeekUInt8 == Apply("peekUInt8", 1, peekUInt8(rbuf, position))

NextReader ==
    \/ DoReadUInt8
    \/ DoReadUInt16
    \/ DoReadUInt32
    \/ DoReadInt32
    \/ DoReadString
    \/ DoReadBytes
    \/ DoReadNullTerminatedString
    \/ DoSkip
    \/ DoSeek
    \/ DoCanRead
    \/ DoPeekUInt8

SpecReader == InitReader /\ [][NextReader]_vars

-----------------------------------------------------------------------------
(* The buffers handed to the decoders: one well-formed file per format     *)
(* for every width and height in 0..MaxDim, files built to sit across two  *)
(* formats, and every prefix of each (a truncated download).               *)

U16BE(n) == <<n \div 256, n % 256>>

U16LE(n) == <<n % 256, n \div 256>>

U32BE(n) == <<0, 0>> \o U16BE(n)

U32LE(n) == U16LE(n) \o <<0, 0>>

Zeros(n) == [i \in 1..n |-> 0]

\* SOI, APP0 'JFIF' at 72 dpi, APP14 'Adobe' of declared length 12, SOF0
JpegFile(w, h) ==
    <<255, 216>>
    \o <<255, 224, 0, 16, 74, 70, 73, 70, 0, 1, 1, 1, 0, 72, 0, 72, 0, 0>>
    \o <<255, 238, 0, 12, 65, 100, 111, 98, 101, 0, 100, 0, 0, 0>>
    \o <<255, 192, 0, 8, 8>> \o U16BE(h) \o U16BE(w) \o <<3>>

\* signature and IHDR (8-bit RGB)
PngFile(w, h) ==
    <<137, 80, 78, 71, 13, 10, 26, 10>>
    \o U32BE(13) \o <<73, 72, 68, 82>> \o U32BE(w) \o U32BE(h) \o <<8, 2, 0, 0, 0>>
    \o Zeros(4)

GifFile(w, h) == <<71, 73, 70, 56, 57, 97>> \o U16LE(w) \o U16LE(h)

\* RIFF/WEBP, an unknown chunk of odd size 1 with its pad byte, a 'VP8 ' chunk
WebpFile(w, h) ==
    <<82, 73, 70, 70>> \o U32LE(32) \o <<87, 69, 66, 80>>
    \o <<65, 66, 67, 68>> \o U32LE(1) \o <<9, 0>>
    \o <<86, 80, 56, 32>> \o U32LE(10) \o <<0, 0, 0, 157, 1, 42>> \o U16LE(w) \o U16LE(h)

\* file header and a 40-byte BITMAPINFOHEADER, 24 bpp, 2835 pixels per metre
BmpFile(w, h) ==
    <<66, 77>> \o Zeros(12) \o U32LE(40) \o U32LE(w) \o U32LE(h) \o <<1, 0, 24, 0>>
    \o Zeros(8) \o U32LE(2835) \o U32LE(2835) \o Zeros(8)

\* a BMP whose DIB header declares 13 bytes and whose ignored file-size and
\* reserved fields spell '<svg>'
BmpSvgFile(w, h) ==
    <<66, 77>> \o <<60, 115, 118, 103, 62>> \o Zeros(7) \o U32LE(13)
    \o U32LE(w) \o U32LE(h) \o <<1, 0, 24, 0>>

\* one directory entry
IcoFile(w, h) ==
    <<0, 0, 1, 0, 1, 0>> \o <<w, h, 0, 0, 1, 0, 32, 0>> \o U32LE(64) \o U32LE(22)

\* ftyp 'avif', then meta > iprp > ipco > ispe
AvifFile(w, h) ==
    U32BE(16) \o <<102, 116, 121, 112, 97, 118, 105, 102>> \o Zeros(4)
    \o U32BE(48) \o <<109, 101, 116, 97>> \o Zeros(4)
    \o U32BE(36) \o <<105, 112, 114, 112>>
    \o U32BE(28) \o <<105, 112, 99, 111>>
    \o U32BE(20) \o <<105, 115, 112, 101>> \o Zeros(4) \o U32BE(w) \o U32BE(h)

\* the same behind an empty 'free' box, so that ftyp is not at offset 4
FreeAvifFile(w, h) == U32BE(8) \o <<102, 114, 101, 101>> \o AvifFile(w, h)

\* a 'free' box of extended size whose low 32 bits are 0
ZeroBoxFile == U32BE(1) \o <<102, 114, 101, 101>> \o Zeros(8)

\* '<svg width="w.4" height="h">'
SvgFile(w, h) ==
    <<60, 115, 118, 103, 32, 119, 105, 100, 116, 104, 61, 34>> \o <<48 + w, 46, 52>>
    \o <<34, 32, 104, 101, 105, 103, 104, 116, 61, 34>> \o <<48 + h>> \o <<34, 62>>

\* SOI followed by '<svg>'
JpegSvgFile == <<255, 216>> \o <<60, 115, 118, 103, 62>>

\* an SVG document that begins with a space
SpaceSvgFile == <<32>> \o SvgFile(1, 1)

RECURSIVE Flatten(_)
\* the byte sequences of parts, one after the other
Flatten(parts) ==
    IF parts = <<>> THEN <<>> ELSE Head(parts) \o Flatten(Tail(parts))

\* APP0 'JFIF' 1.1 with the density d in both directions
JfifSegment(units, d) ==
    <<255, 224>> \o U16BE(16) \o <<74, 70, 73, 70, 0, 1, 1, units>>
    \o U16BE(d) \o U16BE(d) \o <<0, 0>>

\* APP1 'Exif', a big-endian TIFF whose IFD holds XResolution and
\* YResolution, both the rational n/1 stored behind the IFD, and
\* ResolutionUnit
ExifSegment(unit, n) ==
    <<255, 225>> \o U16BE(62) \o <<69, 120, 105, 102, 0, 0>>
    \o <<77, 77, 0, 42>> \o U32BE(8) \o U16BE(3)
    \o U16BE(282) \o U16BE(5) \o U32BE(1) \o U32BE(46)
    \o U16BE(283) \o U16BE(5) \o U32BE(1) \o U32BE(46)
    \o U16BE(296) \o U16BE(3) \o U32BE(1) \o U16BE(unit) \o <<0, 0>>
    \o U32BE(n) \o U32BE(1)

\* APP2 'ICC_PROFILE', chunk 1 of 1, 22 bytes of profile data whose bytes
\* 16..19 are the colour-space tag
IccSegmentOf(tag) ==
    <<255, 226>> \o U16BE(38) \o <<73, 67, 67, 95, 80, 82, 79, 70, 73, 76, 69, 0, 1, 1>>
    \o Zeros(16) \o tag \o <<0, 0>>

\* the tag 'RGB '
IccSegment == IccSegmentOf(<<82, 71, 66, 32>>)

\* 'RGB ', 'GRAY', 'CMYK', 'Lab ', 'XYZ ', and 'sRGB', which the search for
\* a profile name finds
IccTags ==
    <<<<82, 71, 66, 32>>, <<71, 82, 65, 89>>, <<67, 77, 89, 75>>, <<76, 97, 98, 32>>,
      <<88, 89, 90, 32>>, <<115, 82, 71, 66>>>>

\* APP2 'MPF', not an ICC profile
MpfSegment == <<255, 226>> \o U16BE(18) \o <<77, 80, 70, 0>> \o Zeros(12)

\* APP14 'Adobe', version 100, two flag words, the transform byte
AdobeSegment(transform) ==
    <<255, 238>> \o U16BE(14) \o <<65, 100, 111, 98, 101, 0, 100, 0, 0, 0, 0, transform>>

\* SOF0, 8 bits per sample
SofSegment(w, h, components) ==
    <<255, 192>> \o U16BE(8) \o <<8>> \o U16BE(h) \o U16BE(w) \o <<components>>

Segment(kind, a, b) == [kind |-> kind, a |-> a, b |-> b]

SegmentBytes(seg) ==
    CASE seg.kind = "jfif"  -> JfifSegment(seg.a, seg.b)
      [] seg.kind = "exif"  -> ExifSegment(seg.a, seg.b)
      [] seg.kind = "icc"   -> IF seg.a = 0 THEN IccSegment ELSE IccSegmentOf(IccTags[seg.a])
      [] seg.kind = "mpf"   -> MpfSegment
      [] seg.kind = "adobe" -> AdobeSegment(seg.a)
      [] seg.kind = "sof"   -> SofSegment(seg.a, seg.b, 3)

\* SOI, the segments, an SOF segment
SegmentFile(segs, w, h, components) ==
    <<255, 216>> \o Flatten([i \in 1..Len(segs) |-> SegmentBytes(segs[i])])
    \o SofSegment(w, h, components)

\* where the payload of the i-th segment of SegmentFile(segs, ...) starts
PayloadStart(segs, i) ==
    2 + Len(Flatten([j \in 1..(i - 1) |-> SegmentBytes(segs[j])])) + 4

\* JFIF at 72 dpi, JFIF without a unit, EXIF at 300 dpi, EXIF at 100 dots
\* per cm, EXIF with a resolution of 0
ResolutionSegments ==
    {Segment("jfif", 1, 72), Segment("jfif", 0, 72), Segment("exif", 2, 300),
     Segment("exif", 3, 100), Segment("exif", 2, 0)}

\* every order of at most MaxSegs APP0 and APP1 segments
ResolutionLists == SeqsUpTo(ResolutionSegments, MaxSegs)

\* each list with the 1 x 1 file it makes
ResolutionPairs == {<<segs, SegmentFile(segs, 1, 1, 3)>> : segs \in ResolutionLists}

ResolutionFiles == {pair[2] : pair \in ResolutionPairs}

Dims == 0..MaxDim

Files ==
    UNION {{JpegFile(w, h), PngFile(w, h), GifFile(w, h), WebpFile(w, h), BmpFile(w, h),
            BmpSvgFile(w, h), IcoFile(w, h), AvifFile(w, h), FreeAvifFile(w, h),
            SvgFile(w, h)} : w \in Dims, h \in Dims}
    \cup {ZeroBoxFile, JpegSvgFile, SpaceSvgFile}

Buffers == UNION {{SubSeq(f, 1, n) : n \in 0..Len(f)} : f \in Files}

-----------------------------------------------------------------------------
(* parseImage as a state machine, one action per step of its code, and a   *)
(* direct call of one decoder on the same buffer.                          *)

\* a call without a try block around it: the Error goes on
rethrow(out) == out

\* the catch blocks: an Error that leaves a decoder counts as no result
tryCatch(out) == IF out.kind = "threw" THEN NoMatch ELSE out

\* a loop that steps over no parser
neverTried(parser, detected) == FALSE

\* a loop with the comparison inverted
allButDetectedTried(parser, detected) == parser # detected

\* `if (parser === detectedParser) continue`
alreadyTried(parser, detected) == parser = detected

Pending == [kind |-> "pending"]

Init ==
    /\ buffer \in Buffers
    /\ pc = "start"
    /\ detectedParser = "null"
    /\ idx = 0
    /\ calls = <<>>
    /\ outs = <<>>
    /\ result = Pending
    /\ direct = [parser |-> "null", out |-> Pending]
    /\ rbuf = <<>>
    /\ littleEndian = FALSE
    /\ position = 0
    /\ lastOp = NoOp
    /\ sources = <<>>
    /\ items = <<>>
    /\ completed = <<>>
    /\ batch = NoPromise
    /\ stream = NoStream
    /\ listening = FALSE
    /\ maxBytes = 0
    /\ chunks = <<>>
    /\ totalLength = 0
    /\ timeoutId = "undefined"
    /\ promise = NoPromise
    /\ requests = <<>>
    /\ responses = <<>>
    /\ fetched = NoPromise
    /\ source = "none"
    /\ opts = [maxBytes |-> 0]
    /\ step = "idle"
    /\ bufferLength = 0
    /\ parseResult = "null"
    /\ attempt = 0
    /\ fetches = <<>>
    /\ specs = NoPromise

\* where parseImage stands once a try block has seen a call end as seen:
\* it returns the result, goes on, never returns, or the Error escapes
Continue(seen) ==
    CASE seen.kind = "result" -> "done"
      [] seen.kind = "none"   -> "fallback"
      [] seen.kind = "hangs"  -> "hung"
      [] seen.kind = "threw"  -> "raised"

\* what follows a call, inside a try block, that ended as out
AfterCall(parser, out, nextIdx) ==
    /\ calls' = Append(calls, parser)
    /\ outs' = Append(outs, out)
    /\ idx' = nextIdx
    /\ pc' = Continue(tryCatch(out))
    /\ result' = IF tryCatch(out).kind = "result" THEN tryCatch(out) ELSE result
    /\ UNCHANGED <<buffer, detectedParser, direct>>
    /\ UNCHANGED readerVars
    /\ UNCHANGED asyncVars

\* const detectedParser = detectFormat(buffer)
Detect ==
    /\ pc = "start"
    /\ detectedParser' = detectFormat(buffer)
    /\ pc' = IF detectedParser' # "null" THEN "detected" ELSE "fallback"
    /\ idx' = 1
    /\ UNCHANGED <<buffer, calls, outs, result, direct>>
    /\ UNCHANGED readerVars
    /\ UNCHANGED asyncVars

\* the detected parser, inside its try block
TryDetected ==
    /\ pc = "detected"
    /\ AfterCall(detectedParser, Call(detectedParser, buffer), 1)

\* the fallback loop meets the parser that was already tried
SkipTried ==
    /\ pc = "fallback"
    /\ idx <= Len(getAllParsers)
    /\ alreadyTried(getAllParsers[idx], detectedParser)
    /\ idx' = idx + 1
    /\ UNCHANGED <<buffer, pc, detectedParser, calls, outs, result, direct>>
    /\ UNCHANGED readerVars
    /\ UNCHANGED asyncVars

\* the fallback loop calls the next parser, inside its try block
TryFallback ==
    /\ pc = "fallback"
    /\ idx <= Len(getAllParsers)
    /\ ~alreadyTried(getAllParsers[idx], detectedParser)
    /\ AfterCall(getAllParsers[idx], Call(getAllParsers[idx], buffer), idx + 1)

\* the loop is over: return null
ReturnNull ==
    /\ pc = "fallback"
    /\ idx > Len(getAllParsers)
    /\ pc' = "done"
    /\ result' = NoMatch
    /\ UNCHANGED <<buffer, detectedParser, idx, calls, outs, direct>>
    /\ UNCHANGED readerVars
    /\ UNCHANGED asyncVars

\* one of the exported decoders called on the buffer by itself
DirectCall ==
    /\ pc = "start"
    /\ direct.parser = "null"
    /\ \E parser \in {detectors[i] : i \in 1..Len(detectors)} :
           direct' = [parser |-> parser, out |-> Call(parser, buffer)]
    /\ UNCHANGED <<buffer, pc, detectedParser, idx, calls, outs, result>>
    /\ UNCHANGED readerVars
    /\ UNCHANGED asyncVars

\* the answer of an exported test on the buffer
Answer(val) == [kind |-> "answer", val |-> val]

\* mightBeImage called on the buffer by itself
DirectMightBeImage ==
    /\ pc = "start"
    /\ direct.parser = "null"
    /\ direct' = [parser |-> "mightBeImage", out |-> Answer(mightBeImage(buffer))]
    /\ UNCHANGED <<buffer, pc, detectedParser, idx, calls, outs, result>>
    /\ UNCHANGED readerVars
    /\ UNCHANGED asyncVars

Next ==
    \/ Detect
    \/ TryDetected
    \/ SkipTried
    \/ TryFallback
    \/ ReturnNull
    \/ DirectCall
    \/ DirectMightBeImage

Spec == Init /\ [][Next]_vars

\* component counts an SOF segment declares
Components == 0..MaxComponents

\* one Adobe APP14 segment, with at most one other segment on each side
AdobeLists ==
    {pre \o <<Segment("adobe", transform, 0)>> \o post :
        pre \in {<<>>, <<Segment("jfif", 1, 72)>>, <<Segment("icc", 0, 0)>>},
        post \in {<<>>, <<Segment("mpf", 0, 0)>>, <<Segment("icc", 0, 0)>>},
        transform \in 0..2}

AdobeFiles == {SegmentFile(segs, 1, 1, c) : segs \in AdobeLists, c \in Components}

\* what stands before the place where the scan stops: nothing, one whole
\* segment, or an SOF segment of height 0
WholeSegments ==
    {<<>>, JfifSegment(1, 72), ExifSegment(2, 300), AdobeSegment(1), MpfSegment,
     SofSegment(1, 0, 3)}

\* data behind a segment header
Tails == {<<>>, SofSegment(1, 1, 3)}

\* APP0, DQT and SOF0
MarkerBytes == {224, 219, 192}

\* a segment header whose declared length is 0, 1, or one more than the
\* length bytes and the data behind them, and that data
BadSegments ==
    {<<255, m>> \o U16BE(len) \o tail :
        m \in MarkerBytes, len \in {0, 1}, tail \in Tails}
    \cup {<<255, m>> \o U16BE(Len(tail) + 3) \o tail : m \in MarkerBytes, tail \in Tails}

\* the buffer ends with fewer than 2 bytes left for a marker, or for the
\* length behind a marker
ShortEnds == {<<>>, <<255>>} \cup {<<255, m, 0>> : m \in MarkerBytes}

TruncatedFiles ==
    {<<255, 216>> \o whole \o bad : whole \in WholeSegments, bad \in BadSegments \cup ShortEnds}

\* the colour space of a result
ColorSpaceOf(out) == IF out.kind = "result" THEN out.colorSpace ELSE "none"

\* what stands before an Adobe segment: nothing, an ICC profile with one of
\* the tags, an ICC profile behind a JFIF segment, or two ICC profiles
IccPrefixes ==
    {<<>>}
    \cup {<<Segment("icc", t, 0)>> : t \in 1..Len(IccTags)}
    \cup {<<Segment("jfif", 1, 72), Segment("icc", t, 0)>> : t \in 1..Len(IccTags)}
    \cup {<<Segment("icc", t, 0), Segment("icc", u, 0)>> : t \in {1, 5}, u \in {2, 6}}

\* a prefix, an Adobe segment with a transform code, at most one segment
\* behind it, and the component count of the SOF segment
IccAdobeCases ==
    {[prefix |-> prefix, transform |-> transform, post |-> post, components |-> c] :
        prefix \in IccPrefixes, transform \in 0..3,
        post \in {<<>>, <<Segment("mpf", 0, 0)>>}, c \in {1, 3, 4}}

\* each case with the file it makes, the colour space the segments before
\* the Adobe segment leave (the SOF segment of a file of no components adds
\* none), and the colour space of the same file without the Adobe segment
IccAdobeRows ==
    {[case |-> case,
      file |-> SegmentFile(case.prefix \o <<Segment("adobe", case.transform, 0)>> \o case.post,
                           1, 1, case.components),
      before |-> ColorSpaceOf(parseJPEG(SegmentFile(case.prefix, 1, 1, 0))),
      without |-> ColorSpaceOf(parseJPEG(SegmentFile(case.prefix \o case.post,
                                                     1, 1, case.components)))] :
        case \in IccAdobeCases}

IccAdobeFiles == {row.file : row \in IccAdobeRows}

\* what stands before the first SOF segment with positive dimensions:
\* nothing, a JFIF segment, an SOF segment of height 0, an ICC profile
\* tagged 'CMYK'
SofPrefixes ==
    {<<>>, <<Segment("jfif", 0, 72)>>, <<Segment("sof", 1, 0)>>, <<Segment("icc", 3, 0)>>}

\* segments that would change the result if they were read
LaterSegments ==
    {Segment("jfif", 1, 72), Segment("exif", 2, 300), Segment("icc", 2, 0),
     Segment("adobe", 2, 0), Segment("sof", 2, 1)}

\* a prefix, the SOF segment of w x h, and the segments behind it, with the
\* file they make (an SOF segment of 2 x 2 with 4 components ends it) and
\* the part of the file that ends with the SOF segment of w x h
LaterRows ==
    {[w |-> w, h |-> h,
      file |-> SegmentFile(prefix \o <<Segment("sof", w, h)>> \o later, 2, 2, 4),
      head |-> SegmentFile(prefix, w, h, 3)] :
        prefix \in SofPrefixes, w \in 1..MaxDim, h \in 1..MaxDim,
        later \in SeqsUpTo(LaterSegments, 2)}

LaterFiles == {row.file : row \in LaterRows}

\* 'VP8X' of 10 bytes: the flags byte with bit 4 for alpha, the canvas size
VP8XChunk(alpha, w, h) ==
    <<86, 80, 56, 88>> \o U32LE(10) \o <<IF alpha THEN 16 ELSE 0, 0, 0, 0>>
    \o SubSeq(U32LE(w - 1), 1, 3) \o SubSeq(U32LE(h - 1), 1, 3)

\* 'VP8 ' of 10 bytes
VP8Chunk(w, h) ==
    <<86, 80, 56, 32>> \o U32LE(10) \o <<0, 0, 0, 157, 1, 42>> \o U16LE(w) \o U16LE(h)

\* 'VP8L' of 5 bytes and its pad byte, behind the signature byte
VP8LChunk(signature, w, h) ==
    <<86, 80, 56, 76>> \o U32LE(5) \o <<signature>> \o U32LE((w - 1) + 16384 * (h - 1)) \o <<0>>

\* a chunk: its kind, its alpha flag or signature byte, its dimensions
WebpChunk(kind, a, w, h) == [kind |-> kind, a |-> a, w |-> w, h |-> h]

WebpChunkBytes(chunk) ==
    CASE chunk.kind = "VP8X"  -> VP8XChunk(chunk.a = 1, chunk.w, chunk.h)
      [] chunk.kind = "VP8 "  -> VP8Chunk(chunk.w, chunk.h)
      [] chunk.kind = "VP8L"  -> VP8LChunk(chunk.a, chunk.w, chunk.h)

\* VP8X with and without the alpha flag, VP8, VP8L with its signature byte
\* 0x2f and with another byte in its place; each chunk has its own
\* dimensions
WebpChunks ==
    {WebpChunk("VP8X", 1, 1, 2), WebpChunk("VP8X", 0, 2, 1), WebpChunk("VP8 ", 0, 3, 1),
     WebpChunk("VP8L", 47, 1, 3), WebpChunk("VP8L", 0, 3, 3)}

\* RIFF, the file size, WEBP, the chunks
ChunkedWebp(list) ==
    Let([data \in {Flatten([i \in 1..Len(list) |-> WebpChunkBytes(list[i])])} |->
        <<82, 73, 70, 70>> \o U32LE(4 + Len(data)) \o <<87, 69, 66, 80>> \o data])

\* every order of at most MaxChunks chunks, with the file it makes
WebpRows == {[list |-> list, file |-> ChunkedWebp(list)] : list \in SeqsUpTo(WebpChunks, MaxChunks)}

WebpFiles == {row.file : row \in WebpRows}

\* a ftyp box: major brand, minor version 0, compatible brands
FtypBox(major, compatible) ==
    U32BE(16 + 4 * Len(compatible)) \o <<102, 116, 121, 112>> \o major \o Zeros(4)
    \o Flatten(compatible)

\* meta > iprp > ipco > ispe with the dimensions w x h
MetaBox(w, h) ==
    U32BE(48) \o <<109, 101, 116, 97>> \o Zeros(4)
    \o U32BE(36) \o <<105, 112, 114, 112>>
    \o U32BE(28) \o <<105, 112, 99, 111>>
    \o U32BE(20) \o <<105, 115, 112, 101>> \o Zeros(4) \o U32BE(w) \o U32BE(h)

\* a top-level box: a ftyp box with its brands, or a meta box with its
\* dimensions
TopBox(kind, major, compatible, w, h) ==
    [kind |-> kind, major |-> major, compatible |-> compatible, w |-> w, h |-> h]

TopBoxBytes(box) ==
    IF box.kind = "ftyp" THEN FtypBox(box.major, box.compatible) ELSE MetaBox(box.w, box.h)

\* ftyp 'avif'; ftyp 'heic' with the compatible brands 'mif1' and 'avis';
\* ftyp 'avis' with the compatible brand 'mif1'; meta boxes of 1 x 2 and
\* of 0 x 1
TopBoxes ==
    {TopBox("ftyp", <<97, 118, 105, 102>>, <<>>, 0, 0),
     TopBox("ftyp", <<104, 101, 105, 99>>, <<<<109, 105, 102, 49>>, <<97, 118, 105, 115>>>>, 0, 0),
     TopBox("ftyp", <<97, 118, 105, 115>>, <<<<109, 105, 102, 49>>>>, 0, 0),
     TopBox("meta", <<>>, <<>>, 1, 2),
     TopBox("meta", <<>>, <<>>, 0, 1)}

BoxFile(list) == Flatten([i \in 1..Len(list) |-> TopBoxBytes(list[i])])

\* every order of at most MaxBoxes top-level boxes, with the file it makes
BoxRows == {[list |-> list, file |-> BoxFile(list)] : list \in SeqsUpTo(TopBoxes, MaxBoxes)}

BoxFiles == {row.file : row \in BoxRows}

\* the segment with another value in its length field
Redeclared(segment, declared) ==
    SubSeq(segment, 1, 2) \o U16BE(declared) \o SubSeq(segment, 5, Len(segment))

\* JFIF at 72 dpi, Adobe with the transform YCCK, an SOF segment of 2 x 2
ShortSegments == {Segment("jfif", 1, 72), Segment("adobe", 2, 0), Segment("sof", 2, 2)}

\* a segment that declares any length from 2 up to its own, with all of its
\* bytes in place, and the file it makes: an SOF segment of 1 x 1 follows
\* unless the segment is an SOF segment itself
ShortTriples ==
    UNION {{<<seg, declared,
              <<255, 216>> \o Redeclared(SegmentBytes(seg), declared)
              \o IF seg.kind = "sof" THEN <<>> ELSE SofSegment(1, 1, 3)>> :
            declared \in 2..(Len(SegmentBytes(seg)) - 2)} : seg \in ShortSegments}

ShortFiles == {triple[3] : triple \in ShortTriples}

\* a PNG chunk: declared length, type, data, a CRC of 0
Chunk(length, type, data) == U32BE(length) \o type \o data \o Zeros(4)

\* the IHDR chunk of an 8-bit RGB image
IhdrChunk(w, h) ==
    Chunk(13, <<73, 72, 68, 82>>, U32BE(w) \o U32BE(h) \o <<8, 2, 0, 0, 0>>)

IendChunk == Chunk(0, <<73, 69, 78, 68>>, <<>>)

\* declared lengths of the first IHDR chunk; its data has that length
IhdrLengths == {0, 12, 13, 14}

\* the signature, an IHDR chunk of some declared length that carries the
\* size 1 x 1, and then nothing, IEND, or a second IHDR chunk and IEND
ChunkFiles ==
    {PNG_SIGNATURE
     \o Chunk(length, <<73, 72, 68, 82>>,
              SubSeq(U32BE(1) \o U32BE(1) \o <<8, 2, 0, 0, 0, 0>>, 1, length))
     \o rest :
        length \in IhdrLengths,
        rest \in {<<>>, IendChunk, IhdrChunk(2, 2) \o IendChunk}}

\* a 16-byte ICO directory entry
DirectoryEntry(w, h, bits) ==
    <<w, h, 0, 0, 1, 0>> \o U16LE(bits) \o U32LE(64) \o U32LE(22)

\* stored widths 0 (for 256), 1, 2; stored heights 0, 2; 8 and 32 bits
DirectoryEntries ==
    {DirectoryEntry(w, h, bits) : w \in {0, 1, 2}, h \in {0, 2}, bits \in {8, 32}}

\* the header and every order of 1..MaxEntries directory entries
DirectoryFiles ==
    {<<0, 0, 1, 0>> \o U16LE(Len(entries)) \o Flatten(entries) :
        entries \in SeqsUpTo(DirectoryEntries, MaxEntries) \ {<<>>}}

\* units written behind the number of a dimension attribute: none, 'px',
\* 'in', 'mm'
DimensionUnits == {<<>>, <<112, 120>>, <<105, 110>>, <<109, 109>>}

\* a dimension attribute: absent, or the one-digit value and the unit
NoAttribute == [present |-> FALSE, value |-> 0, unit |-> <<>>]

DimensionAttributes(value) ==
    {NoAttribute} \cup {[present |-> TRUE, value |-> value, unit |-> u] : u \in DimensionUnits}

\* ' name="text"'
AttributeText(name, text) == <<32>> \o name \o <<61, 34>> \o text \o <<34>>

DimensionText(name, attr) ==
    IF attr.present THEN AttributeText(name, <<48 + attr.value>> \o attr.unit) ELSE <<>>

\* '<svg', the attributes that are present, '>'; the viewBox is '0 0 10 20'
SvgDocument(w, h, viewBox) ==
    <<60, 115, 118, 103>>
    \o DimensionText(<<119, 105, 100, 116, 104>>, w)
    \o DimensionText(<<104, 101, 105, 103, 104, 116>>, h)
    \o (IF viewBox
        THEN AttributeText(<<118, 105, 101, 119, 66, 111, 120>>,
                           <<48, 32, 48, 32, 49, 48, 32, 50, 48>>)
        ELSE <<>>)
    \o <<62>>

\* widths of 2 and heights of 3 in every unit, with and without a viewBox
SvgDocuments ==
    {SvgDocument(w, h, viewBox) :
        w \in DimensionAttributes(2), h \in DimensionAttributes(3), viewBox \in BOOLEAN}

\* files built segment by segment, chunk by chunk and entry by entry
Crafted == ResolutionFiles \cup AdobeFiles \cup TruncatedFiles \cup ShortFiles
    \cup IccAdobeFiles \cup LaterFiles \cup WebpFiles
    \cup BoxFiles
    \cup ChunkFiles \cup DirectoryFiles \cup SvgDocuments

\* the same program on the crafted files
InitCrafted ==
    /\ buffer \in Crafted
    /\ pc = "start"
    /\ detectedParser = "null"
    /\ idx = 0
    /\ calls = <<>>
    /\ outs = <<>>
    /\ result = Pending
    /\ direct = [parser |-> "null", out |-> Pending]
    /\ rbuf = <<>>
    /\ littleEndian = FALSE
    /\ position = 0
    /\ lastOp = NoOp
    /\ sources = <<>>
    /\ items = <<>>
    /\ completed = <<>>
    /\ batch = NoPromise
    /\ stream = NoStream
    /\ listening = FALSE
    /\ maxBytes = 0
    /\ chunks = <<>>
    /\ totalLength = 0
    /\ timeoutId = "undefined"
    /\ promise = NoPromise
    /\ requests = <<>>
    /\ responses = <<>>
    /\ fetched = NoPromise
    /\ source = "none"
    /\ opts = [maxBytes |-> 0]
    /\ step = "idle"
    /\ bufferLength = 0
    /\ parseResult = "null"
    /\ attempt = 0
    /\ fetches = <<>>
    /\ specs = NoPromise

SpecCrafted == InitCrafted /\ [][Next]_vars

-----------------------------------------------------------------------------
(* getImageSpecsBatch: one async callback per source, gathered by          *)
(* Promise.all.  How the extraction of a source ends is an input: it       *)
(* resolves, rejects with an ImageSpecsError, or rejects with another      *)
(* Error.  Indexes are 1-based; the index the code puts in a message is    *)
(* one less.                                                               *)

Outcomes == {"specs", "ImageSpecsError", "Error"}

SourceLists == SeqsUpTo(Outcomes, MaxSources)

\* what getImageSpecs rejects with on the i-th source
ThrownBy(outcome, i) ==
    [name |-> outcome, code |-> IF outcome = "ImageSpecsError" THEN "UNSUPPORTED_FORMAT" ELSE "none",
     item |-> Undef]

\* `return { success: true, specs }`
successEntry(i) == [success |-> TRUE, specs |-> i, error |-> "none"]

\* the catch block: an ImageSpecsError is kept, anything else is wrapped
catchEntry(error, i) ==
    [success |-> FALSE, specs |-> Undef,
     error |-> IF error.name = "ImageSpecsError"
               THEN error
               ELSE [name |-> "ImageSpecsError", code |-> "CORRUPTED_IMAGE", item |-> i - 1]]

\* the values in the order the extractions completed
valuesAsCompleted(its, order) == [k \in 1..Len(order) |-> its[order[k]].value]

\* the array Promise.all resolves to: the values in the order of the promises
allValues(its, order) == [i \in 1..Len(its) |-> its[i].value]

InitBatch ==
    /\ sources \in SourceLists
    /\ items = [i \in 1..Len(sources) |-> PendingPromise]
    /\ completed = <<>>
    /\ batch = PendingPromise
    /\ buffer = <<>>
    /\ pc = "idle"
    /\ detectedParser = "null"
    /\ idx = 0
    /\ calls = <<>>
    /\ outs = <<>>
    /\ result = Pending
    /\ direct = [parser |-> "null", out |-> Pending]
    /\ rbuf = <<>>
    /\ littleEndian = FALSE
    /\ position = 0
    /\ lastOp = NoOp
    /\ stream = NoStream
    /\ listening = FALSE
    /\ maxBytes = 0
    /\ chunks = <<>>
    /\ totalLength = 0
    /\ timeoutId = "undefined"
    /\ promise = NoPromise
    /\ requests = <<>>
    /\ responses = <<>>
    /\ fetched = NoPromise
    /\ source = "none"
    /\ opts = [maxBytes |-> 0]
    /\ step = "idle"
    /\ bufferLength = 0
    /\ parseResult = "null"
    /\ attempt = 0
    /\ fetches = <<>>
    /\ specs = NoPromise

\* the await of the i-th callback resolves: the try block returns
ItemReturns(i) ==
    /\ i \in 1..Len(sources)
    /\ items[i].state = "pending"
    /\ sources[i] = "specs"
    /\ items' = [items EXCEPT ![i] = Resolve(@, successEntry(i))]
    /\ completed' = Append(completed, i)
    /\ UNCHANGED <<sources, batch>>
    /\ UNCHANGED <<dispatchVars, readerVars, streamVars, fetchVars, specsVars>>

\* the await of the i-th callback rejects: the catch block returns
ItemCatches(i) ==
    /\ i \in 1..Len(sources)
    /\ items[i].state = "pending"
    /\ sources[i] # "specs"
    /\ items' = [items EXCEPT ![i] = Resolve(@, catchEntry(ThrownBy(sources[i], i), i))]
    /\ completed' = Append(completed, i)
    /\ UNCHANGED <<sources, batch>>
    /\ UNCHANGED <<dispatchVars, readerVars, streamVars, fetchVars, specsVars>>

AnyRejected(its) == \E i \in 1..Len(its) : its[i].state = "rejected"

AllFulfilled(its) == \A i \in 1..Len(its) : its[i].state = "fulfilled"

\* Promise.all: rejects with the first rejection, resolves once every
\* promise is fulfilled
PromiseAll ==
    /\ batch.state = "pending"
    /\ AnyRejected(items) \/ AllFulfilled(items)
    /\ batch' = IF AnyRejected(items)
                THEN Reject(batch, "rejection")
                ELSE Resolve(batch, allValues(items, completed))
    /\ UNCHANGED <<sources, items, completed>>
    /\ UNCHANGED <<dispatchVars, readerVars, streamVars, fetchVars, specsVars>>

NextBatch ==
    \/ \E i \in 1..MaxSources : ItemReturns(i)
    \/ \E i \in 1..MaxSources : ItemCatches(i)
    \/ PromiseAll

SpecBatch == InitBatch /\ [][NextBatch]_vars

-----------------------------------------------------------------------------
(* readStreamWithTimeout: the state after the promise executor has run     *)
(* (timer set, three listeners attached), then one action per callback.    *)
(* The stream delivers its bytes in chunks of any sizes; the timer may     *)
(* fire at any moment while it is set.                                     *)

\* the n bytes a stream delivers
StreamData(n) == [i \in 1..n |-> i]

\* Buffer.concat(chunks), not cut
wholeBuffer(list, limit) == Flatten(list)

\* Buffer.concat(chunks), cut at maxBytes
resolvedBuffer(list, limit) == Slice(Flatten(list), 0, limit)

InitStream ==
    /\ stream \in {[NoStream EXCEPT !.left = StreamData(n)] : n \in 0..MaxStreamBytes}
    /\ listening = TRUE
    /\ maxBytes \in 0..MaxLimit
    /\ chunks = <<>>
    /\ totalLength = 0
    /\ timeoutId = "armed"
    /\ promise = PendingPromise
    /\ buffer = <<>>
    /\ pc = "idle"
    /\ detectedParser = "null"
    /\ idx = 0
    /\ calls = <<>>
    /\ outs = <<>>
    /\ result = Pending
    /\ direct = [parser |-> "null", out |-> Pending]
    /\ rbuf = <<>>
    /\ littleEndian = FALSE
    /\ position = 0
    /\ lastOp = NoOp
    /\ sources = <<>>
    /\ items = <<>>
    /\ completed = <<>>
    /\ batch = NoPromise
    /\ requests = <<>>
    /\ responses = <<>>
    /\ fetched = NoPromise
    /\ source = "none"
    /\ opts = [maxBytes |-> 0]
    /\ step = "idle"
    /\ bufferLength = 0
    /\ parseResult = "null"
    /\ attempt = 0
    /\ fetches = <<>>
    /\ specs = NoPromise

\* a cleanup that leaves the timer as it is
leaveTimeout(id) == id

\* clearTimeout(timeoutId); timeoutId = undefined
clearTimeout(id) == "undefined"

\* the stream after cleanup(): a paused stream is resumed
cleanup(st) == [st EXCEPT !.paused = FALSE]

\* 'data' with a chunk of k bytes
onData(k) ==
    /\ listening
    /\ ~stream.paused /\ ~stream.destroyed /\ ~stream.ended
    /\ k \in 1..Len(stream.left)
    /\ chunks' = Append(chunks, SubSeq(stream.left, 1, k))
    /\ totalLength' = totalLength + k
    /\ IF totalLength' >= maxBytes
       THEN /\ stream' = cleanup([stream EXCEPT !.left = SubSeq(@, k + 1, Len(@)),
                                                !.paused = TRUE])
            /\ timeoutId' = clearTimeout(timeoutId)
            /\ listening' = FALSE
            /\ promise' = Resolve(promise, resolvedBuffer(chunks', maxBytes))
       ELSE /\ stream' = [stream EXCEPT !.left = SubSeq(@, k + 1, Len(@))]
            /\ UNCHANGED <<timeoutId, listening, promise>>
    /\ UNCHANGED maxBytes
    /\ UNCHANGED <<dispatchVars, readerVars, batchVars, fetchVars, specsVars>>

\* 'end'
onEnd ==
    /\ listening
    /\ ~stream.paused /\ ~stream.destroyed /\ ~stream.ended
    /\ stream.left = <<>>
    /\ stream' = cleanup([stream EXCEPT !.ended = TRUE])
    /\ timeoutId' = clearTimeout(timeoutId)
    /\ listening' = FALSE
    /\ promise' = IF totalLength = 0
                  THEN Reject(promise, "INSUFFICIENT_DATA")
                  ELSE Resolve(promise, Flatten(chunks))
    /\ UNCHANGED <<maxBytes, chunks, totalLength>>
    /\ UNCHANGED <<dispatchVars, readerVars, batchVars, fetchVars, specsVars>>

\* 'error': the stream fails before it has ended
onError ==
    /\ listening
    /\ ~stream.destroyed /\ ~stream.ended
    /\ stream' = cleanup([stream EXCEPT !.destroyed = TRUE])
    /\ timeoutId' = clearTimeout(timeoutId)
    /\ listening' = FALSE
    /\ promise' = Reject(promise, "INVALID_STREAM")
    /\ UNCHANGED <<maxBytes, chunks, totalLength>>
    /\ UNCHANGED <<dispatchVars, readerVars, batchVars, fetchVars, specsVars>>

\* the timer fires
onTimeout ==
    /\ timeoutId = "armed"
    /\ stream' = [cleanup(stream) EXCEPT !.destroyed = TRUE]
    /\ timeoutId' = clearTimeout(timeoutId)
    /\ listening' = FALSE
    /\ promise' = Reject(promise, "TIMEOUT")
    /\ UNCHANGED <<maxBytes, chunks, totalLength>>
    /\ UNCHANGED <<dispatchVars, readerVars, batchVars, fetchVars, specsVars>>

\* the resumed stream runs dry with no listener attached
Drain ==
    /\ promise.state \in {"fulfilled", "rejected"}
    /\ ~listening
    /\ ~stream.paused /\ ~stream.destroyed /\ ~stream.ended
    /\ stream' = [stream EXCEPT !.left = <<>>, !.ended = TRUE]
    /\ UNCHANGED <<listening, maxBytes, chunks, totalLength, timeoutId, promise>>
    /\ UNCHANGED <<dispatchVars, readerVars, batchVars, fetchVars, specsVars>>

NextStream ==
    \/ \E k \in 1..MaxStreamBytes : onData(k)
    \/ onEnd
    \/ onError
    \/ onTimeout
    \/ Drain

SpecStream == InitStream /\ [][NextStream]_vars

\* the timer set by setTimeout fires unless clearTimeout has cleared it
SpecStreamFair == SpecStream /\ WF_vars(onTimeout)

-----------------------------------------------------------------------------
(* fetchImageHeaders: one request at a time; a response, an error or a     *)
(* timeout ends it.  A redirect makes fetchImageHeaders call itself, and   *)
(* the promise of the first call settles as the last call of the chain.    *)

\* `const maxRedirects = 5`
maxRedirects == 5

\* two URLs, so that each can redirect to the other
Urls == {"a", "b"}

\* headers.location: absent, empty, or a URL
Locations == {"undefined", ""} \cup Urls

\* response.statusCode
StatusCodes == {200, 206, 302, 307, 404}

\* options.redirectCount ?? 0
redirectCountOf(options) == IF options.redirectCount = Undef THEN 0 ELSE options.redirectCount

\* a test that lets one more redirect pass
moreThanMax(redirectCount) == redirectCount > maxRedirects

\* `if (redirectCount >= maxRedirects)`
tooManyRedirects(redirectCount) == redirectCount >= maxRedirects

\* "null", "threw" ('Too many redirects'), or the call of fetchFunction
handleRedirect(statusCode, location, options) ==
    IF statusCode >= 300 /\ statusCode < 400 /\ location \notin {"undefined", ""}
    THEN IF tooManyRedirects(redirectCountOf(options))
         THEN [kind |-> "threw", url |-> "", redirectCount |-> Undef]
         ELSE [kind |-> "fetch", url |-> location,
               redirectCount |-> redirectCountOf(options) + 1]
    ELSE [kind |-> "null", url |-> "", redirectCount |-> Undef]

InitFetch ==
    /\ requests = <<[url |-> "a", redirectCount |-> Undef]>>
    /\ responses = <<>>
    /\ fetched = PendingPromise
    /\ buffer = <<>>
    /\ pc = "idle"
    /\ detectedParser = "null"
    /\ idx = 0
    /\ calls = <<>>
    /\ outs = <<>>
    /\ result = Pending
    /\ direct = [parser |-> "null", out |-> Pending]
    /\ rbuf = <<>>
    /\ littleEndian = FALSE
    /\ position = 0
    /\ lastOp = NoOp
    /\ sources = <<>>
    /\ items = <<>>
    /\ completed = <<>>
    /\ batch = NoPromise
    /\ stream = NoStream
    /\ listening = FALSE
    /\ maxBytes = 0
    /\ chunks = <<>>
    /\ totalLength = 0
    /\ timeoutId = "undefined"
    /\ promise = NoPromise
    /\ source = "none"
    /\ opts = [maxBytes |-> 0]
    /\ step = "idle"
    /\ bufferLength = 0
    /\ parseResult = "null"
    /\ attempt = 0
    /\ fetches = <<>>
    /\ specs = NoPromise

\* the last request has no response yet and nothing has ended the chain
InFlight == fetched.state = "pending" /\ Len(responses) < Len(requests)

\* the callback of httpModule.request
onResponse(statusCode, location) ==
    /\ InFlight
    /\ responses' = Append(responses, [statusCode |-> statusCode, location |-> location])
    /\ IF handleRedirect(statusCode, location, requests[Len(requests)]).kind = "fetch"
       THEN /\ requests' = Append(requests,
                   [url |-> handleRedirect(statusCode, location, requests[Len(requests)]).url,
                    redirectCount |->
                        handleRedirect(statusCode, location, requests[Len(requests)]).redirectCount])
            /\ UNCHANGED fetched
       ELSE /\ fetched' =
                   IF handleRedirect(statusCode, location, requests[Len(requests)]).kind = "threw"
                   THEN Reject(fetched, "NETWORK_ERROR: Too many redirects")
                   ELSE IF statusCode # 200 /\ statusCode # 206
                   THEN Reject(fetched, "NETWORK_ERROR: HTTP")
                   ELSE Resolve(fetched, "HttpResponse")
            /\ UNCHANGED requests
    /\ UNCHANGED <<dispatchVars, readerVars, batchVars, streamVars, specsVars>>

\* request.on('error')
onRequestError ==
    /\ InFlight
    /\ fetched' = Reject(fetched, "NETWORK_ERROR: Request error")
    /\ UNCHANGED <<requests, responses>>
    /\ UNCHANGED <<dispatchVars, readerVars, batchVars, streamVars, specsVars>>

\* request.on('timeout')
onRequestTimeout ==
    /\ InFlight
    /\ fetched' = Reject(fetched, "TIMEOUT")
    /\ UNCHANGED <<requests, responses>>
    /\ UNCHANGED <<dispatchVars, readerVars, batchVars, streamVars, specsVars>>

NextFetch ==
    \/ \E statusCode \in StatusCodes, location \in Locations : onResponse(statusCode, location)
    \/ onRequestError
    \/ onRequestTimeout

SpecFetch == InitFetch /\ [][NextFetch]_vars

\* a request ends with a response, an error or its timeout
SpecFetchFair == SpecFetch /\ WF_vars(NextFetch)

-----------------------------------------------------------------------------
(* getImageSpecs: one action per await.  What a fetch, a read and          *)
(* parseImage give is an input of the action.                              *)

\* `const maxRetries = 3`
maxRetries == 3

\* an http(s) URL, a data URL, a file path, a Buffer, a Readable, anything
\* else
SourceKinds == {"http", "data", "path", "Buffer", "Readable", "invalid"}

\* [currentMaxBytes * 2, currentMaxBytes * 4, 1048576]
increments(currentMaxBytes) == <<currentMaxBytes * 2, currentMaxBytes * 4, 1048576>>

\* a retry test that does not look at the length of the buffer
retryAnyLength(parsed, kind, length, currentMaxBytes) ==
    parsed = "null" /\ kind = "http"

\* `!parseResult && url && buffer.length === currentMaxBytes`
shouldRetry(parsed, kind, length, currentMaxBytes) ==
    parsed = "null" /\ kind = "http" /\ length = currentMaxBytes

\* `i < maxRetries && !parseResult`
loopGoesOn(index, parsed) == index < maxRetries /\ parsed = "null"

\* a call of fetchImageHeaders with its maxBytes; parsed is what parseImage
\* makes of the buffer read from its response
Fetch(bytes) == [maxBytes |-> bytes, parsed |-> "unread"]

InitSpecs ==
    /\ source \in SourceKinds
    /\ opts \in {[maxBytes |-> m] : m \in 1..MaxLimit}
    /\ step = "open"
    /\ bufferLength = 0
    /\ parseResult = "null"
    /\ attempt = 0
    /\ fetches = <<>>
    /\ specs = PendingPromise
    /\ buffer = <<>>
    /\ pc = "idle"
    /\ detectedParser = "null"
    /\ idx = 0
    /\ calls = <<>>
    /\ outs = <<>>
    /\ result = Pending
    /\ direct = [parser |-> "null", out |-> Pending]
    /\ rbuf = <<>>
    /\ littleEndian = FALSE
    /\ position = 0
    /\ lastOp = NoOp
    /\ sources = <<>>
    /\ items = <<>>
    /\ completed = <<>>
    /\ batch = NoPromise
    /\ stream = NoStream
    /\ listening = FALSE
    /\ maxBytes = 0
    /\ chunks = <<>>
    /\ totalLength = 0
    /\ timeoutId = "undefined"
    /\ promise = NoPromise
    /\ requests = <<>>
    /\ responses = <<>>
    /\ fetched = NoPromise

\* the source becomes a stream: fetchImageHeaders for an http(s) URL,
\* readFile for a path; ok is FALSE when that fails
Open(ok) ==
    /\ step = "open"
    /\ fetches' = IF source = "http" THEN <<Fetch(opts.maxBytes)>> ELSE fetches
    /\ IF source = "invalid"
       THEN /\ specs' = Reject(specs, "INVALID_STREAM")
            /\ step' = "done"
       ELSE IF ~ok
       THEN /\ specs' = Reject(specs, IF source = "http" THEN "NETWORK_ERROR"
                                      ELSE IF source = "data" THEN "INVALID_URL"
                                      ELSE "CORRUPTED_IMAGE")
            /\ step' = "done"
       ELSE /\ step' = "read"
            /\ UNCHANGED specs
    /\ UNCHANGED <<source, opts, bufferLength, parseResult, attempt>>
    /\ UNCHANGED <<dispatchVars, readerVars, batchVars, streamVars, fetchVars>>

\* the first readStreamWithTimeout fails
ReadFails ==
    /\ step = "read"
    /\ specs' = Reject(specs, "TIMEOUT")
    /\ step' = "done"
    /\ UNCHANGED <<source, opts, bufferLength, parseResult, attempt, fetches>>
    /\ UNCHANGED <<dispatchVars, readerVars, batchVars, streamVars, fetchVars>>

\* the first readStreamWithTimeout gives length bytes, parseImage makes
\* parsed of them; the code up to the next await, or to the end
Read(length, parsed) ==
    /\ step = "read"
    /\ bufferLength' = length
    /\ IF length = 0
       THEN /\ specs' = Reject(specs, "INSUFFICIENT_DATA")
            /\ step' = "done"
            /\ UNCHANGED <<parseResult, fetches>>
       ELSE /\ parseResult' = parsed
            /\ fetches' = IF source = "http"
                           THEN [fetches EXCEPT ![1].parsed = parsed] ELSE fetches
            /\ IF shouldRetry(parsed, source, length, opts.maxBytes)
               THEN /\ step' = "retryFetch"
                    /\ UNCHANGED specs
               ELSE /\ step' = "done"
                    /\ specs' = IF parsed = "null"
                                 THEN Reject(specs, "UNSUPPORTED_FORMAT")
                                 ELSE Resolve(specs, "ImageSpecs")
    /\ UNCHANGED <<source, opts, attempt>>
    /\ UNCHANGED <<dispatchVars, readerVars, batchVars, streamVars, fetchVars>>

\* the catch block of the retry loop, after the call of fetchImageHeaders
\* logged as made
Caught(made) ==
    /\ fetches' = made
    /\ attempt' = attempt + 1
    /\ IF attempt = maxRetries - 1
       THEN /\ specs' = Reject(specs, "UNSUPPORTED_FORMAT")
            /\ step' = "done"
       ELSE /\ step' = "retryFetch"
            /\ UNCHANGED specs
    /\ UNCHANGED <<source, opts, bufferLength, parseResult>>
    /\ UNCHANGED <<dispatchVars, readerVars, batchVars, streamVars, fetchVars>>

\* fetchImageHeaders(url, retryOpts) of the retry loop
RetryFetch(ok) ==
    /\ step = "retryFetch"
    /\ IF ok
       THEN /\ fetches' = Append(fetches, Fetch(increments(opts.maxBytes)[attempt + 1]))
            /\ step' = "retryRead"
            /\ UNCHANGED <<source, opts, bufferLength, parseResult, attempt, specs>>
            /\ UNCHANGED <<dispatchVars, readerVars, batchVars, streamVars, fetchVars>>
       ELSE Caught(Append(fetches,
                [Fetch(increments(opts.maxBytes)[attempt + 1]) EXCEPT !.parsed = "failed"]))

\* readStreamWithTimeout of the retry loop fails
RetryReadFails ==
    /\ step = "retryRead"
    /\ Caught([fetches EXCEPT ![Len(fetches)].parsed = "failed"])

\* readStreamWithTimeout of the retry loop gives a buffer, parseImage makes
\* parsed of it; the code up to the next await, or to the end
RetryRead(parsed) ==
    /\ step = "retryRead"
    /\ parseResult' = parsed
    /\ fetches' = [fetches EXCEPT ![Len(fetches)].parsed = parsed]
    /\ attempt' = attempt + 1
    /\ IF loopGoesOn(attempt + 1, parsed)
       THEN /\ step' = "retryFetch"
            /\ UNCHANGED specs
       ELSE /\ step' = "done"
            /\ specs' = IF parsed = "null"
                         THEN Reject(specs, "UNSUPPORTED_FORMAT")
                         ELSE Resolve(specs, "ImageSpecs")
    /\ UNCHANGED <<source, opts, bufferLength>>
    /\ UNCHANGED <<dispatchVars, readerVars, batchVars, streamVars, fetchVars>>

NextSpecs ==
    \/ \E ok \in BOOLEAN : Open(ok)
    \/ ReadFails
    \/ \E length \in 0..opts.maxBytes, parsed \in {"result", "null"} : Read(length, parsed)
    \/ \E ok \in BOOLEAN : RetryFetch(ok)
    \/ RetryReadFails
    \/ \E parsed \in {"result", "null"} : RetryRead(parsed)

SpecSpecs == InitSpecs /\ [][NextSpecs]_vars

-----------------------------------------------------------------------------
(* Claims about parseImage and the decoders *)

\* the signature table order the specification gives
TableOrder ==
    <<"parseJPEG", "parsePNG", "parseGIF", "parseWebP", "parseBMP", "parseICO",
      "parseAVIF", "parseSVG">>

\* the order in which parseImage is to call the decoders
CallOrder(detected) ==
    (IF detected = "null" THEN <<>> ELSE <<detected>>)
    \o SelectSeq(TableOrder, LAMBDA p : p # detected)

\* parseImage has returned
Returned == pc = "done"

\* C1: parseImage never raises: an Error thrown by the detected decoder or
\* by a fallback decoder is caught and counts as no match, so what parseImage
\* returns is a result or none, and after a decoder has thrown the remaining
\* decoders are still tried.  (Whether every call returns at all is the
\* matter of the loops of the decoders, see avifBoxes, and not of this
\* property: a call that never returns raises nothing.)
C1_ParseImageNeverRaises ==
    /\ pc # "raised"
    /\ Returned => result.kind \in {"result", "none"}
    /\ \A i \in 1..Len(outs) :
           outs[i].kind = "threw" =>
               \/ i < Len(outs)
               \/ pc = "fallback"
               \/ Returned /\ result = NoMatch /\ Len(calls) = Len(TableOrder)

\* the detected decoder threw, a later decoder threw as well, and a decoder
\* tried after both returned the result of the call
C1_Witness ==
    /\ Returned
    /\ result.kind = "result"
    /\ Len(outs) > 2
    /\ outs[1].kind = "threw"
    /\ \E i \in 2..(Len(outs) - 1) : outs[i].kind = "threw"

\* C2: every result a decoder returns, and so every result parseImage
\* returns, has an integer width >= 1 and an integer height >= 1.
C2_DimensionsAtLeastOne ==
    /\ direct.out.kind = "result" =>
           /\ direct.out.width \in Int /\ direct.out.width >= 1
           /\ direct.out.height \in Int /\ direct.out.height >= 1
    /\ result.kind = "result" =>
           /\ result.width \in Int /\ result.width >= 1
           /\ result.height \in Int /\ result.height >= 1

\* C3: parseImage calls the detected decoder first, then every other decoder
\* in the table order JPEG, PNG, GIF, WebP, BMP, ICO, AVIF, SVG, skipping the
\* one already tried; no decoder is called twice; the first result ends the
\* call and is what it returns; it returns none iff every decoder returns
\* none or throws on the buffer.
C3_CallOrder ==
    /\ Len(calls) <= Len(CallOrder(detectedParser))
    /\ calls = SubSeq(CallOrder(detectedParser), 1, Len(calls))
    /\ \A i, j \in 1..Len(calls) : i < j => calls[i] # calls[j]
    /\ \A i \in 1..Len(outs) :
           outs[i].kind = "result" => i = Len(outs) /\ Returned /\ result = outs[i]
    /\ Returned =>
           (result.kind = "none" <=>
                \A i \in 1..Len(TableOrder) :
                    Call(TableOrder[i], buffer).kind \in {"none", "threw"})

\* BMP was detected and tried first, the loop then went through the whole
\* table, stepping over BMP, and the last decoder returned the result
C3_Witness ==
    /\ Returned
    /\ detectedParser = "parseBMP"
    /\ calls = CallOrder("parseBMP")
    /\ result.kind = "result"

\* the decoders other than detected that return a result on the buffer, as
\* indices of the table
OtherResults(detected) ==
    {i \in 1..Len(TableOrder) :
        TableOrder[i] # detected /\ Call(TableOrder[i], buffer).kind = "result"}

\* parseImage has returned and the decoder called directly is the detected one
DetectedCalledDirectly ==
    Returned /\ detectedParser # "null" /\ direct.parser = detectedParser

\* C4 as the specification states it: on a buffer on which detectFormat
\* returns a decoder, that decoder called directly and parseImage yield
\* identical results (both none, or equal results).
C4_DirectEqualsParseImage ==
    DetectedCalledDirectly => result = direct.out

\* C4, amended: on a buffer on which detectFormat returns a decoder, if that
\* decoder called directly returns a result, parseImage returns an equal
\* result; if it returns none or throws, parseImage returns the result of the
\* first other decoder, in table order, that returns one, and none when no
\* other decoder returns one.
C4_DetectedResultOrFallback ==
    DetectedCalledDirectly =>
        IF direct.out.kind = "result" THEN result = direct.out
        ELSE IF OtherResults(detectedParser) = {} THEN result = NoMatch
        ELSE result = Call(TableOrder[CHOOSE i \in OtherResults(detectedParser) :
                                          \A j \in OtherResults(detectedParser) : i <= j],
                           buffer)

\* the detected decoder returns none on the buffer and parseImage returns
\* the result of another decoder
C4_Witness ==
    /\ DetectedCalledDirectly
    /\ direct.out.kind = "none"
    /\ result.kind = "result"

\* buf begins with the bytes of signature
StartsWith(buf, signature) ==
    Len(buf) >= Len(signature) /\ SubSeq(buf, 1, Len(signature)) = signature

\* C5: parseJPEG never raises: on every buffer that starts with the SOI
\* marker, truncated segments included, it returns a result or none.
C5_ParseJPEGNeverRaises ==
    (direct.parser = "parseJPEG" /\ StartsWith(buffer, <<255, 216>>)) =>
        direct.out.kind \in {"result", "none"}

\* C6: parseWebP never raises: on every buffer with the RIFF/WEBP signature,
\* one whose last chunk has an odd size and ends at the buffer end included,
\* it returns a result or none.
C6_ParseWebPNeverRaises ==
    (/\ direct.parser = "parseWebP"
     /\ StartsWith(buffer, <<82, 73, 70, 70>>)                              \* 'RIFF'
     /\ Len(buffer) >= 12
     /\ SubSeq(buffer, 9, 12) = <<87, 69, 66, 80>>) =>                       \* 'WEBP'
        direct.out.kind \in {"result", "none"}

\* the DIB header size a BMP buffer declares (bytes 14..17, little-endian)
DeclaredHeaderSize(buf) == readUInt32(buf, 14, TRUE).val

\* the bytes parseBMP reads after the header size for a declared size
HeaderFieldBytes(size) ==
    IF size = 12 THEN 8
    ELSE IF size >= 40 THEN 28
    ELSE 12

\* C7: parseBMP never raises, and returns none whenever the width or the
\* height is <= 0, the DIB header size is < 12, or the buffer is too short
\* for the fields read for the declared header size, whatever that size is.
C7_ParseBMPRejects ==
    direct.parser = "parseBMP" =>
        /\ direct.out.kind # "threw"
        /\ direct.out.kind = "result" =>
               /\ direct.out.width > 0 /\ direct.out.height > 0
               /\ DeclaredHeaderSize(buffer) >= 12
               /\ Len(buffer) >= 18 + HeaderFieldBytes(DeclaredHeaderSize(buffer))

\* C8: parseAVIF never raises: when a box declares a size that reaches past
\* the end of the buffer, parseAVIF returns a result or none rather than
\* failing on the seek to the end of the box.
C8_ParseAVIFNeverRaises ==
    direct.parser = "parseAVIF" => direct.out.kind # "threw"

\* C21: parseAVIF terminates on every finite buffer: every iteration of the
\* top-level box loop and of findBox moves the cursor forward, also for a
\* box whose declared size, or the low 32 bits of its extended size, is 0
\* or smaller than the box header.
C21_ParseAVIFTerminates ==
    direct.parser = "parseAVIF" => direct.out.kind # "hangs"

\* some decoder returns a result on buf
SomeDecoderAccepts(buf) ==
    \E i \in 1..Len(TableOrder) : Call(TableOrder[i], buf).kind = "result"

\* C11: mightBeImage has no false negatives: on every buffer on which at
\* least one of the eight decoders returns a result, mightBeImage is true.
C11_NoFalseNegative ==
    (direct.parser = "mightBeImage" /\ SomeDecoderAccepts(buffer)) => direct.out.val

\* detectFormat has run on the buffer
Detected == pc \in {"detected", "fallback", "done", "hung", "raised"}

\* C12: detectFormat returns the decoder of the first table entry, in the
\* order JPEG, PNG, GIF, WebP, BMP, ICO, AVIF, SVG, whose predicate matches,
\* and none when no predicate matches; so a buffer that matches a binary
\* signature and holds '<svg' in its first 1024 bytes is detected as the
\* binary format, never as SVG.
C12_FirstMatchingEntry ==
    Detected =>
        /\ detectedParser = "null" <=>
               \A i \in 1..Len(TableOrder) : ~validate(TableOrder[i], buffer)
        /\ detectedParser # "null" =>
               \E i \in 1..Len(TableOrder) :
                   /\ TableOrder[i] = detectedParser
                   /\ validate(TableOrder[i], buffer)
                   /\ \A j \in 1..(i - 1) : ~validate(TableOrder[j], buffer)
        /\ (/\ svgDetector(buffer)
            /\ \E i \in 1..(Len(TableOrder) - 1) : validate(TableOrder[i], buffer)) =>
               detectedParser # "parseSVG"

\* a buffer with the BMP signature and '<svg' in it, detected as BMP
C12_Witness ==
    /\ Detected
    /\ svgDetector(buffer)
    /\ bmpDetector(buffer)
    /\ detectedParser = "parseBMP"

\* the APP1 segments of SegmentFile(segs, ...) on which parseEXIF finds a
\* resolution
YieldingExif(buf, segs) ==
    {i \in 1..Len(segs) :
        segs[i].kind = "exif" /\ parseEXIF(buf, PayloadStart(segs, i)).w # Undef}

\* the resolutions parseJFIF finds on its APP0 segments
JfifResolutions(buf, segs) ==
    {parseJFIF(buf, PayloadStart(segs, i)) : i \in {j \in 1..Len(segs) : segs[j].kind = "jfif"}}

\* the resolution a result carries, as the segment handlers return it
ResolutionOf(out) == [threw |-> FALSE, w |-> out.wResolution, h |-> out.hResolution]

\* C13: for every order of APP0 (JFIF) and APP1 (EXIF) segments before the
\* SOF segment, when some EXIF segment yields a resolution the result
\* reports the resolution of the last such EXIF segment; a JFIF resolution
\* is reported only when no EXIF segment yielded one.
C13_ExifPrecedence ==
    direct.parser = "parseJPEG" =>
        \A pair \in ResolutionPairs :
            buffer = pair[2] =>
                Let([segs \in {pair[1]} |->
                Let([yielding \in {YieldingExif(buffer, segs)} |->
                    /\ direct.out.kind = "result"
                    /\ yielding # {} =>
                           ResolutionOf(direct.out) =
                               parseEXIF(buffer, PayloadStart(segs,
                                   CHOOSE i \in yielding : \A j \in yielding : i >= j))
                    /\ yielding = {} =>
                           ResolutionOf(direct.out) \in JfifResolutions(buffer, segs) \cup {NoResolution}
                    /\ (/\ direct.out.wResolution # Undef
                        /\ ResolutionOf(direct.out) \in JfifResolutions(buffer, segs)) =>
                           yielding = {}])])

\* EXIF at 300 dpi, then JFIF at 72 dpi, then an EXIF segment that yields
\* nothing: 300 dpi is reported
C13_Witness ==
    /\ direct.parser = "parseJPEG"
    /\ buffer = SegmentFile(<<Segment("exif", 2, 300), Segment("jfif", 1, 72),
                              Segment("exif", 2, 0)>>, 1, 1, 3)
    /\ direct.out.kind = "result"
    /\ direct.out.wResolution = 300
    /\ direct.out.hResolution = 300

\* no APP2 segment of the list carries an ICC profile
NoIcc(segs) == \A i \in 1..Len(segs) : segs[i].kind # "icc"

\* the transform byte of the i-th segment, an Adobe segment
TransformByte(buf, segs, i) == At(buf, PayloadStart(segs, i) + 11)

\* C14: for a JPEG with an Adobe APP14 segment and no APP2 ICC segment
\* before the SOF segment, the reported colour space is 'Adobe RGB' when the
\* transform byte is 0 and 'YCbCr' when it is 1, whatever component count
\* the SOF segment declares.
C14_AdobeTransform ==
    direct.parser = "parseJPEG" =>
        \A segs \in AdobeLists, c \in Components :
            (buffer = SegmentFile(segs, 1, 1, c) /\ NoIcc(segs)) =>
                \A i \in 1..Len(segs) :
                    segs[i].kind = "adobe" =>
                        /\ direct.out.kind = "result"
                        /\ TransformByte(buffer, segs, i) = 0 =>
                               direct.out.colorSpace = "Adobe RGB"
                        /\ TransformByte(buffer, segs, i) = 1 =>
                               direct.out.colorSpace = "YCbCr"

\* four components, which by themselves mean CMYK, behind an Adobe segment
\* with transform 0
C14_Witness ==
    /\ direct.parser = "parseJPEG"
    /\ buffer = SegmentFile(<<Segment("jfif", 1, 72), Segment("adobe", 0, 0),
                              Segment("mpf", 0, 0)>>, 1, 1, 4)
    /\ direct.out.kind = "result"
    /\ direct.out.channels = 4
    /\ direct.out.colorSpace = "Adobe RGB"

\* C15: parseJPEG stops scanning and returns none as soon as it meets,
\* before any SOF segment with positive dimensions, a segment whose declared
\* length is < 2 or exceeds the bytes remaining in the buffer, or when fewer
\* than 2 bytes remain; data located after such a segment is never used.
\* (The segments before that place are whole; an Error raised while a
\* segment is handled is the subject of C5.)
C15_StopsAtBadSegment ==
    (direct.parser = "parseJPEG" /\ buffer \in TruncatedFiles) => direct.out = NoMatch

\* an SOF header of declared length 0, and the whole SOF segment of a 1 x 1
\* image behind it
C15_Witness ==
    /\ direct.parser = "parseJPEG"
    /\ buffer = <<255, 216>> \o JfifSegment(1, 72)
                \o <<255, 192, 0, 0>> \o SofSegment(1, 1, 3)
    /\ direct.out = NoMatch

\* the first chunk of a PNG buffer is an IHDR chunk
FirstChunkIsIHDR(buf) ==
    /\ StartsWith(buf, PNG_SIGNATURE)
    /\ Len(buf) >= 16
    /\ SubSeq(buf, 13, 16) = <<73, 72, 68, 82>>

\* the declared length of the first chunk
FirstChunkLength(buf) == readUInt32(buf, 8, FALSE).val

\* C16: for every buffer with the valid 8-byte PNG signature whose first
\* chunk is an IHDR chunk with a declared length other than 13, parsePNG
\* returns none.
C16_BadIhdrLength ==
    (/\ direct.parser = "parsePNG"
     /\ FirstChunkIsIHDR(buffer)
     /\ FirstChunkLength(buffer) # 13) => direct.out = NoMatch

\* the i-th directory entry of an ICO buffer as (width, height, bit count),
\* a stored width or height of 0 counted as 256
EntryKey(buf, i) ==
    Let([at \in {6 + 16 * (i - 1)} |->
        <<IF At(buf, at) = 0 THEN 256 ELSE At(buf, at),
          IF At(buf, at + 1) = 0 THEN 256 ELSE At(buf, at + 1),
          At(buf, at + 6) + 256 * At(buf, at + 7)>>])

\* a >= b in the lexicographic order
LexAtLeast(a, b) ==
    \/ a[1] > b[1]
    \/ a[1] = b[1] /\ a[2] > b[2]
    \/ a[1] = b[1] /\ a[2] = b[2] /\ a[3] >= b[3]

\* the earliest of the maximal entries among count entries
MaximalEntry(buf, count) ==
    CHOOSE i \in 1..count :
        /\ \A j \in 1..count : LexAtLeast(EntryKey(buf, i), EntryKey(buf, j))
        /\ \A j \in 1..(i - 1) : EntryKey(buf, j) # EntryKey(buf, i)

\* C17: parseICO reports the width and height of the directory entry that
\* is maximal in the lexicographic order (width, then height, then bit
\* count), a stored width or height of 0 counted as 256, for every entry
\* count >= 1 and every order of the entries; among equal entries the
\* earliest is kept.
C17_LargestEntry ==
    (direct.parser = "parseICO" /\ buffer \in DirectoryFiles) =>
        Let([best \in {EntryKey(buffer, MaximalEntry(buffer, At(buffer, 4)))} |->
            /\ direct.out.kind = "result"
            /\ direct.out.width = best[1]
            /\ direct.out.height = best[2]])

\* 2 x 2 before 2 x 256 (stored height 0): the second entry is reported
C17_Witness ==
    /\ direct.parser = "parseICO"
    /\ buffer = <<0, 0, 1, 0, 2, 0>> \o DirectoryEntry(2, 2, 32) \o DirectoryEntry(2, 0, 8)
    /\ direct.out.kind = "result"
    /\ direct.out.width = 2
    /\ direct.out.height = 256

\* the unit a dimension attribute is written in, none meaning px
OriginalUnit(attr) == IF attr.unit = <<>> THEN Px ELSE attr.unit

\* the value of a dimension attribute in pixels, rounded
ConvertedValue(attr) ==
    Round(convertToPixels([nan |-> FALSE, n |-> attr.value, d |-> 1, len |-> 1],
                          OriginalUnit(attr)))

\* C18: parseSVG reports in wUnits/hUnits the original unit of each
\* dimension attribute that is present; when only one of width/height is
\* absent and a viewBox supplies it, only the missing dimension is taken
\* from the viewBox (unit px) and the present dimension keeps its own
\* converted value and its original unit.
C18_UnitsKept ==
    direct.parser = "parseSVG" =>
        \A w \in DimensionAttributes(2), h \in DimensionAttributes(3), viewBox \in BOOLEAN :
            buffer = SvgDocument(w, h, viewBox) =>
                /\ direct.out.kind = "result"
                /\ w.present =>
                       /\ direct.out.wUnits = OriginalUnit(w)
                       /\ direct.out.width = ConvertedValue(w)
                /\ h.present =>
                       /\ direct.out.hUnits = OriginalUnit(h)
                       /\ direct.out.height = ConvertedValue(h)
                /\ (~w.present /\ h.present /\ viewBox) =>
                       direct.out.width = 10 /\ direct.out.wUnits = Px
                /\ (w.present /\ ~h.present /\ viewBox) =>
                       direct.out.height = 20 /\ direct.out.hUnits = Px

-----------------------------------------------------------------------------
(* Claims about getImageSpecsBatch *)

\* C19: getImageSpecsBatch never rejects: it resolves to an array with
\* exactly one entry per source, in source order whatever order the
\* extractions complete in; each entry is {success: true, specs} or
\* {success: false, error: ImageSpecsError}, and the entry of a source
\* depends on that source alone.
C19_BatchNeverRejects ==
    /\ batch.state # "rejected"
    /\ batch.state = "fulfilled" =>
           /\ Len(completed) = Len(sources)
           /\ Len(batch.value) = Len(sources)
           /\ \A i \in 1..Len(sources) :
                  IF sources[i] = "specs"
                  THEN batch.value[i].success /\ batch.value[i].specs = i
                  ELSE /\ ~batch.value[i].success
                       /\ batch.value[i].error.name = "ImageSpecsError"
                       /\ batch.value[i].error.item \in {Undef, i - 1}

\* three sources, the second fails; the extractions complete in the order
\* third, first, second
C19_Witness ==
    /\ batch.state = "fulfilled"
    /\ completed = <<3, 1, 2>>
    /\ sources = <<"specs", "Error", "specs">>
    /\ batch.value[1] = successEntry(1)
    /\ ~batch.value[2].success
    /\ batch.value[3] = successEntry(3)

\* bytes of the payload the fields of a segment take: 'JFIF\0', version,
\* units and the two densities; 'Adobe', version, flags and the transform;
\* precision, height, width and the component count
FieldBytes(kind) ==
    CASE kind = "jfif"  -> 12
      [] kind = "adobe" -> 12
      [] kind = "sof"   -> 6

\* C22: every field parseJPEG reports is read from bytes inside the declared
\* payload of the segment it belongs to: a segment whose declared length is
\* too short to hold its fields contributes no value, so a short APP0 gives
\* no resolution, a short APP14 no colour space, and a short SOF no
\* dimensions (and, being the only SOF, no result).
C22_FieldsInsidePayload ==
    direct.parser = "parseJPEG" =>
        \A triple \in ShortTriples :
            (buffer = triple[3] /\ triple[2] - 2 < FieldBytes(triple[1].kind)) =>
                CASE triple[1].kind = "jfif" ->
                         direct.out.kind = "result" /\ direct.out.wResolution = Undef
                  [] triple[1].kind = "adobe" ->
                         direct.out.kind = "result" /\ direct.out.colorSpace = "RGB"
                  [] triple[1].kind = "sof" ->
                         direct.out = NoMatch

\* C23: once an APP2 ICC segment has set the colour space to a value other
\* than the literal 'RGB', a later Adobe APP14 segment with any transform
\* code leaves it unchanged: the Adobe segment changes the colour space only
\* while it is unset or equal to 'RGB'.
C23_IccBeforeAdobe ==
    direct.parser = "parseJPEG" =>
        \A row \in IccAdobeRows :
            buffer = row.file =>
                /\ direct.out.kind = "result"
                /\ row.before \notin {"undefined", "RGB"} =>
                       direct.out.colorSpace = row.before
                /\ direct.out.colorSpace # row.without =>
                       row.before \in {"undefined", "RGB"}

\* an ICC profile tagged 'CMYK', then an Adobe segment with the transform
\* YCCK: the colour space is still CMYK
C23_Witness ==
    /\ direct.parser = "parseJPEG"
    /\ buffer = SegmentFile(<<Segment("icc", 3, 0), Segment("adobe", 2, 0)>>, 1, 1, 4)
    /\ direct.out.kind = "result"
    /\ direct.out.colorSpace = "CMYK"

\* C24: parseJPEG returns at the first SOF segment that declares a width
\* > 0 and a height > 0: the result has the dimensions of that segment and
\* is the result of the file that ends with it, so no APP0, APP1, APP2,
\* APP14 or SOF segment located behind it changes the result.
C24_ReturnsAtFirstSof ==
    direct.parser = "parseJPEG" =>
        \A row \in LaterRows :
            buffer = row.file =>
                /\ direct.out.kind = "result"
                /\ direct.out.width = row.w
                /\ direct.out.height = row.h
                /\ direct.out = parseJPEG(row.head)

\* an SOF segment of height 0, the SOF segment of 1 x 2, then an EXIF
\* segment and an SOF segment of 2 x 1: the result is 1 x 2 with no
\* resolution
C24_Witness ==
    /\ direct.parser = "parseJPEG"
    /\ buffer = SegmentFile(<<Segment("sof", 1, 0), Segment("sof", 1, 2),
                              Segment("exif", 2, 300), Segment("sof", 2, 1)>>, 2, 2, 4)
    /\ direct.out.kind = "result"
    /\ direct.out.width = 1
    /\ direct.out.height = 2
    /\ direct.out.wResolution = Undef
    /\ direct.out.channels = 3

-----------------------------------------------------------------------------
(* Claims about parseWebP *)

\* the chunks of the list that are VP8X chunks
VP8XIn(list) == {i \in 1..Len(list) : list[i].kind = "VP8X"}

\* the chunks of the list that are VP8 chunks or well-formed VP8L chunks
FramesIn(list) ==
    {i \in 1..Len(list) : list[i].kind = "VP8 " \/ (list[i].kind = "VP8L" /\ list[i].a = 47)}

\* C26: for every buffer parseWebP accepts, the reported channel count is 4
\* if the alpha flag (bit 4) of the VP8X chunk is set or the file contains a
\* well-formed VP8L chunk, and 3 otherwise.
C26_ChannelCount ==
    direct.parser = "parseWebP" =>
        \A row \in WebpRows :
            (buffer = row.file /\ direct.out.kind = "result") =>
                direct.out.channels =
                    IF \/ \E i \in VP8XIn(row.list) : row.list[i].a = 1
                       \/ \E i \in 1..Len(row.list) :
                              row.list[i].kind = "VP8L" /\ row.list[i].a = 47
                    THEN 4 ELSE 3

\* C25: when a VP8X chunk supplies the canvas size, the reported width and
\* height are the VP8X values (the stored value + 1) wherever the VP8X chunk
\* sits relative to the VP8 and VP8L chunks; the dimensions of a VP8 or VP8L
\* chunk are reported only when no VP8X chunk supplied them.
C25_VP8XFirst ==
    direct.parser = "parseWebP" =>
        \A row \in WebpRows :
            buffer = row.file =>
                /\ VP8XIn(row.list) # {} =>
                       /\ direct.out.kind = "result"
                       /\ \E i \in VP8XIn(row.list) :
                              /\ direct.out.width = row.list[i].w
                              /\ direct.out.height = row.list[i].h
                /\ (/\ direct.out.kind = "result"
                    /\ \E i \in FramesIn(row.list) :
                           /\ direct.out.width = row.list[i].w
                           /\ direct.out.height = row.list[i].h) =>
                       VP8XIn(row.list) = {}

\* a VP8 chunk, a VP8L chunk, then the VP8X chunk: the canvas size of the
\* VP8X chunk, the last chunk of the file, is reported
C25_Witness ==
    /\ direct.parser = "parseWebP"
    /\ buffer = ChunkedWebp(<<WebpChunk("VP8 ", 0, 3, 1), WebpChunk("VP8L", 47, 1, 3),
                              WebpChunk("VP8X", 0, 2, 1)>>)
    /\ direct.out.kind = "result"
    /\ direct.out.width = 2
    /\ direct.out.height = 1

-----------------------------------------------------------------------------
(* Claims about parseAVIF *)

\* the brands of the ftyp box say AVIF: the major brand is 'avif', or a
\* compatible brand is 'avif' or 'avis'
SaysAvif(box) ==
    /\ box.kind = "ftyp"
    /\ \/ box.major = <<97, 118, 105, 102>>
       \/ \E k \in 1..Len(box.compatible) :
              box.compatible[k] \in {<<97, 118, 105, 102>>, <<97, 118, 105, 115>>}

\* the meta boxes of the list that stand behind a ftyp box that says AVIF
MetaBehindFtyp(list) ==
    {m \in 1..Len(list) :
        list[m].kind = "meta" /\ \E f \in 1..(m - 1) : SaysAvif(list[f])}

\* C27: parseAVIF returns a result only if, among the top-level boxes, a
\* ftyp box with the major brand avif or a compatible brand avif or avis was
\* matched before the meta box that carries the ispe dimensions, and those
\* dimensions are both positive; a meta box met before a matching ftyp box
\* is ignored.
C27_FtypBeforeMeta ==
    direct.parser = "parseAVIF" =>
        \A row \in BoxRows :
            (buffer = row.file /\ direct.out.kind = "result") =>
                       /\ direct.out.width > 0
                       /\ direct.out.height > 0
                       /\ \E m \in MetaBehindFtyp(row.list) :
                              /\ direct.out.width = row.list[m].w
                              /\ direct.out.height = row.list[m].h

\* a meta box of 0 x 1, then a ftyp box whose compatible brand is avis,
\* then a meta box of 1 x 2: the first meta box has not stopped the loop,
\* and the result is 1 x 2
C27_Witness ==
    /\ direct.parser = "parseAVIF"
    /\ buffer = BoxFile(<<TopBox("meta", <<>>, <<>>, 0, 1),
                          TopBox("ftyp", <<104, 101, 105, 99>>,
                                 <<<<109, 105, 102, 49>>, <<97, 118, 105, 115>>>>, 0, 0),
                          TopBox("meta", <<>>, <<>>, 1, 2)>>)
    /\ direct.out.kind = "result"
    /\ direct.out.width = 1
    /\ direct.out.height = 2

-----------------------------------------------------------------------------
(* Claims about readStreamWithTimeout *)

\* C20: the buffer resolved by readStreamWithTimeout never holds more than
\* maxBytes bytes, for every way the stream splits its data into chunks,
\* and holds the first bytes of the stream; the promise resolves as soon as
\* the accumulated length reaches maxBytes, without waiting for the stream
\* to end.
C20_AtMostMaxBytes ==
    /\ promise.state = "fulfilled" =>
           /\ Len(promise.value) <= maxBytes
           /\ promise.value = StreamData(Len(promise.value))
    /\ (chunks # <<>> /\ totalLength >= maxBytes) =>
           /\ promise.state = "fulfilled"
           /\ Len(promise.value) = maxBytes

\* the second chunk takes the length beyond maxBytes while the stream has
\* more to deliver: the promise is resolved with maxBytes bytes
C20_Witness ==
    /\ promise.state = "fulfilled"
    /\ Len(chunks) = 2
    /\ totalLength > maxBytes
    /\ Len(promise.value) = maxBytes
    /\ stream.left # <<>>
    /\ ~stream.ended

\* the promise is settled
Settled == promise.state \in {"fulfilled", "rejected"}

\* C28: for every interleaving of the data, end and error events of the
\* stream with the timeout, readStreamWithTimeout settles its promise
\* exactly once: resolve and reject are called once in all, the promise
\* always settles (by the timeout at the latest), at settlement the timer
\* is cleared and the data, end and error listeners are removed, and no
\* later event changes the outcome.
C28_SettlesExactlyOnce ==
    /\ [](promise.settled <= 1)
    /\ [](Settled <=> promise.settled = 1)
    /\ [](Settled => (timeoutId = "undefined" /\ ~listening))
    /\ [][Settled => promise' = promise]_vars
    /\ <>Settled

\* the promise was resolved at maxBytes while the stream had more to
\* deliver, and the stream has run to its end since then
C28_Witness ==
    /\ promise.state = "fulfilled"
    /\ promise.settled = 1
    /\ totalLength >= maxBytes
    /\ totalLength < MaxStreamBytes
    /\ stream.ended
    /\ stream.left = <<>>

-----------------------------------------------------------------------------
(* Claims about fetchImageHeaders *)

\* a 3xx response with a Location header
IsRedirect(response) ==
    /\ response.statusCode >= 300 /\ response.statusCode < 400
    /\ response.location \notin {"undefined", ""}

\* C29: fetchImageHeaders follows at most 5 redirects in a chain: each 3xx
\* response with a Location header triggers one new request, to that
\* location and with the redirect count increased by 1 (no other response
\* triggers a request), a further redirect after 5 have been followed rejects
\* with the NETWORK_ERROR 'Too many redirects', and the chain always ends,
\* a chain whose last response is a redirect in a rejection.
C29_AtMostFiveRedirects ==
    /\ [](Len(requests) - 1 <= 5)
    /\ [](\A k \in 1..Len(responses) :
             IF IsRedirect(responses[k])
             THEN IF k <= 5
                  THEN /\ Len(requests) > k
                       /\ requests[k + 1] = [url |-> responses[k].location, redirectCount |-> k]
                  ELSE /\ Len(requests) = k
                       /\ fetched.state = "rejected"
                       /\ fetched.value = "NETWORK_ERROR: Too many redirects"
             ELSE /\ Len(requests) = k
                  /\ fetched.state \in {"fulfilled", "rejected"})
    /\ [](Len(requests) <= Len(responses) + 1)
    /\ []((fetched.state = "fulfilled") => ~IsRedirect(responses[Len(responses)]))
    /\ <>(fetched.state \in {"fulfilled", "rejected"})

\* a loop between the two URLs: six requests, six redirects, and the
\* rejection
C29_Witness ==
    /\ Len(requests) = 6
    /\ Len(responses) = 6
    /\ \A k \in 1..6 : requests[k].url = (IF k % 2 = 1 THEN "a" ELSE "b")
    /\ \A k \in 1..6 : IsRedirect(responses[k])
    /\ fetched.state = "rejected"
    /\ fetched.value = "NETWORK_ERROR: Too many redirects"

-----------------------------------------------------------------------------
(* Claims about getImageSpecs *)

\* C30: getImageSpecs re-fetches with a larger byte budget only when the
\* source is an http(s) URL, the first parse returned none and the first
\* buffer has exactly maxBytes bytes; it makes at most 3 re-fetches, with
\* 2 x maxBytes, 4 x maxBytes, then 1 MiB, stops at the first re-fetch whose
\* buffer parses, and rejects with UNSUPPORTED_FORMAT when none of them
\* yields a result.
C30_RefetchRule ==
    /\ source # "http" => fetches = <<>>
    /\ Len(fetches) >= 2 =>
           /\ source = "http"
           /\ fetches[1].parsed = "null"
           /\ bufferLength = opts.maxBytes
    /\ Len(fetches) <= 1 + 3
    /\ \A k \in 2..Len(fetches) :
           /\ fetches[k].maxBytes =
                  <<2 * opts.maxBytes, 4 * opts.maxBytes, 1048576>>[k - 1]
           /\ fetches[k].parsed = "result" =>
                  /\ k = Len(fetches)
                  /\ specs.state = "fulfilled"
    /\ (/\ specs.state \in {"fulfilled", "rejected"}
        /\ Len(fetches) >= 2
        /\ \A k \in 2..Len(fetches) : fetches[k].parsed # "result") =>
           /\ specs.state = "rejected"
           /\ specs.value = "UNSUPPORTED_FORMAT"

\* the re-fetches with 2 x and 4 x maxBytes found nothing, the one with
\* 1 MiB parses
C30_Witness ==
    /\ Len(fetches) = 4
    /\ opts.maxBytes = 2
    /\ fetches[2] = [maxBytes |-> 4, parsed |-> "null"]
    /\ fetches[3] = [maxBytes |-> 8, parsed |-> "failed"]
    /\ fetches[4] = [maxBytes |-> 1048576, parsed |-> "result"]
    /\ specs.state = "fulfilled"

-----------------------------------------------------------------------------
(* Claims about the BufferReader *)

\* bytes a fixed-width or counted read needs
Width(op) ==
    IF op.op = "readUInt8" THEN 1
    ELSE IF op.op = "readUInt16" THEN 2
    ELSE IF op.op \in {"readUInt32", "readInt32"} THEN 4
    ELSE op.arg

BoundedReads ==
    {"readUInt8", "readUInt16", "readUInt32", "readInt32", "readString", "readBytes"}

\* C9: a read with fewer bytes remaining than it needs fails and leaves the
\* position unchanged; a successful read advances the position by exactly the
\* number of bytes read; peekUInt8 fails on the same bound and never moves
\* the position.
C9_ReadsAreBoundsChecked ==
    /\ lastOp.op \in BoundedReads =>
           IF Len(rbuf) - lastOp.before < Width(lastOp)
           THEN ~lastOp.ok /\ position = lastOp.before
           ELSE lastOp.ok /\ position = lastOp.before + Width(lastOp)
    /\ lastOp.op = "peekUInt8" =>
           /\ position = lastOp.before
           /\ lastOp.ok <=> (Len(rbuf) - lastOp.before >= 1)

\* a 4-byte read that failed after earlier reads had advanced the cursor
C9_Witness ==
    /\ lastOp.op = "readUInt32"
    /\ ~lastOp.ok
    /\ lastOp.before > 0
    /\ Len(rbuf) - lastOp.before \in 1..3

====
